---- MODULE Spec2Model ----
(***************************************************************************)
(* A model of the runtime core of the engine: the frame loop of            *)
(* src/src/core/engine.c (Engine_run, _calculate_fps, _wait_for), the      *)
(* drawing context of src/src/gl (context.c, primitive.c) and the shader   *)
(* switch of src/src/core/io/display.c (Display_shader) over the program   *)
(* objects of src/src/gl/program.c.                                        *)
(*                                                                         *)
(* Time.  The C code keeps times in float seconds.  The model keeps them   *)
(* as natural numbers of clock ticks, so additions and subtractions are    *)
(* exact; a quotient of two times (the frame rate, the interpolation       *)
(* factor) is kept as a fraction in lowest terms.                          *)
(***************************************************************************)
EXTENDS Integers, Sequences, FiniteSets, TLC

(***************************************************************************)
(* Bounds of the model.                                                    *)
(***************************************************************************)
MaxDelta == 2          \* delta_time ranges over 1..MaxDelta ticks
MaxSkip == 2           \* configuration.skippable_frames ranges over 0..MaxSkip
MaxElapsed == 3        \* one iteration's elapsed time ranges over 0..MaxElapsed
MaxTotal == 3          \* Engine_run is followed until MaxTotal ticks have elapsed
FPS_AVERAGE_SAMPLES == 2   \* size of the ring of _calculate_fps (config.h)
MaxReference == 2      \* reference_time is MaxReference microseconds
SubMicro == 2          \* pacing units per microsecond
Width == 2             \* width of the drawing context, in pixels
Height == 2            \* height of the drawing context, in pixels
GL_MAX_PALETTE_COLORS == 2   \* number of palette entries (gl/palette.h)
MaxProgramIds == 2     \* glCreateProgram names programs 1..MaxProgramIds
MaxCanvas == 2         \* the configured canvas is 1..MaxCanvas wide and high
MaxMonitor == 3        \* the monitor's work area is 1..MaxMonitor wide and high
MaxScale == 2          \* the configured scale ranges over 0..MaxScale
MaxCalls == 8          \* calls of _calculate_fps followed on their own
MaxButtons == 3        \* the buttons followed are 1..MaxButtons

VARIABLES
    \* ---- Engine_run (src/src/core/engine.c) ----
    pc,                \* position of Engine_run
    platform,          \* PLATFORM_ID, the platform the program is built for
    delta_time,        \* 1 / configuration.fps, in ticks
    skippable_frames,  \* configuration.skippable_frames
    reference_time,    \* 1 / configuration.fps_cap, in microseconds
    running,           \* the loop's `running`
    quit,              \* engine->environment.quit
    should_close,      \* Display_should_close(&engine->display)
    lag,               \* the loop's `lag`
    frames,            \* the drain loop's `frames`
    elapsed,           \* the iteration's `elapsed`
    env_time,          \* engine->environment.time
    env_fps,           \* engine->environment.fps, a fraction <<num, den>>
    samples, index, sum,   \* the statics of _calculate_fps
    display_time,      \* display->time, advanced by Display_update
    render_factor,     \* the argument of this iteration's Interpreter_render, a fraction
    waited,            \* what the pacing step just done did: the time left
                       \* over and the call made for it, if any
    \* ---- history of Engine_run ----
    calls,             \* the calls of the current iteration, in order
    total,             \* sum of the elapsed times of all iterations
    updates,           \* number of Interpreter_update invocations
    drains,            \* number of passes through the drain loop's body
    lag_in,            \* lag + elapsed of the current iteration
    exhausted,         \* some drain loop ended on frames == 0 with lag >= delta_time
    failed,            \* some interpreter call returned false
    streak,            \* <<e, n>>: the last n calls of _calculate_fps were fed e
    \* ---- GL_Context_t (src/src/gl/context.c) ----
    gl,                \* the context but its pixels: width, height, vram_rows,
                       \* vram_size, background, shifting, transparent, palette
    vram,              \* gl->vram: the pixels, by offset from the buffer's start
    \* ---- history of the drawing context ----
    gl_op,             \* the last drawing call and its arguments
    gl_prev,           \* the pixels before the last drawing call
    \* ---- Display_t and the GL driver (src/src/core/io/display.c) ----
    display,           \* display->programs and display->active_program
    driver,            \* the driver's program objects and the program in use
    \* ---- history of the display ----
    display_op,        \* the last call on the display, its arguments, what the
                       \* driver answered and what the call did
    display_prev,      \* display and driver before the last call
    \* ---- start-up and shutdown (Engine_initialize, Engine_terminate) ----
    system,            \* what the engine and the display hold: the resources
                       \* acquired and not released, the display's geometry
                       \* and programs, and where the engine's life stands
    system_op,         \* the last call, its inputs, what the environment
                       \* answered, the calls it made and its result
    \* ---- a frame drawn and presented (GL_primitive_point, Display_present) ----
    frame,             \* the canvas, the pattern being drawn, how far it is
                       \* drawn, the display's true-colour buffer and what
                       \* the presentation uploaded
    \* ---- Input_t (src/src/core/io/input.h) ----
    input,             \* the buttons: what the devices report now, what they
                       \* reported at the last Input_process, and each
                       \* button's Input_Button_State_t
    \* ---- history of _calculate_fps called on its own ----
    fps_calls          \* number of calls of _calculate_fps made so far

engine_vars == <<pc, platform, delta_time, skippable_frames, reference_time, running, quit,
                 should_close, lag, frames, elapsed, env_time, env_fps, samples,
                 index, sum, display_time, render_factor, waited, calls, total,
                 updates, drains, lag_in, exhausted, failed, streak>>

gl_vars == <<gl, vram, gl_op, gl_prev>>

display_vars == <<display, driver, display_op, display_prev>>

system_vars == <<system, system_op>>

frame_vars == <<frame>>

input_vars == <<input>>

fps_vars == <<fps_calls>>

vars == <<engine_vars, gl_vars, display_vars, system_vars, frame_vars, input_vars,
         fps_vars>>

\* What a step of Engine_run, a drawing call and a call on the display leave
\* alone.
not_engine_vars == <<gl_vars, display_vars, system_vars, frame_vars, input_vars, fps_vars>>
not_gl_vars == <<engine_vars, display_vars, system_vars, frame_vars, input_vars, fps_vars>>
not_display_vars == <<engine_vars, gl_vars, system_vars, frame_vars, input_vars, fps_vars>>
not_system_vars == <<engine_vars, gl_vars, display_vars, frame_vars, input_vars, fps_vars>>
not_frame_vars == <<engine_vars, display_vars, system_vars, input_vars, fps_vars>>
not_input_vars == <<engine_vars, gl_vars, display_vars, system_vars, frame_vars, fps_vars>>
not_fps_vars == <<gl_vars, display_vars, system_vars, frame_vars, input_vars>>

(***************************************************************************)
(* Fractions.                                                              *)
(***************************************************************************)
RECURSIVE GCD(_, _)
GCD(a, b) == IF b = 0 THEN a ELSE GCD(b, a % b)

\* The quotient n / d of two naturals in lowest terms; a division by zero
\* gives <<1, 0>> (the float +inf) or <<0, 0>> (the float NaN).
Fraction(n, d) ==
    LET g == GCD(n, d) IN IF g = 0 THEN <<0, 0>> ELSE <<n \div g, d \div g>>

(***************************************************************************)
(* _calculate_fps                                                          *)
(***************************************************************************)
\* (mutant) the evicted sample is not taken off the running sum
fps_sum_no_eviction(e) == sum + e

\* sum -= samples[index]; sum += elapsed
fps_sum(e) == (sum - samples[index]) + e

fps_samples(e) == [samples EXCEPT ![index] = e]

fps_index == (index + 1) % FPS_AVERAGE_SAMPLES

\* (mutant) the sum is divided by the number of samples fed so far while the
\* ring is not full
_calculate_fps_over_fed(e) ==
    [samples |-> fps_samples(e), index |-> fps_index, sum |-> fps_sum(e),
     result |-> Fraction(IF fps_calls + 1 < FPS_AVERAGE_SAMPLES
                         THEN fps_calls + 1 ELSE FPS_AVERAGE_SAMPLES, fps_sum(e))]

\* The statics after the call and the value returned.
_calculate_fps(e) ==
    [samples |-> fps_samples(e),
     index   |-> fps_index,
     sum     |-> fps_sum(e),
     result  |-> Fraction(FPS_AVERAGE_SAMPLES, fps_sum(e))]

\* The platforms the program builds for: PLATFORM_ID selects the branch of
\* _wait_for when the program is compiled.
Platforms == {"PLATFORM_LINUX", "PLATFORM_WINDOWS", "PLATFORM_OTHER"}

\* A call that asks the system for a pause of seconds and nanoseconds.
Pause(call, seconds, nanoseconds) ==
    [call |-> call, seconds |-> seconds, nanoseconds |-> nanoseconds]

\* No call.
NoPause == Pause("none", 0, 0)

\* usleep(usec), Sleep(millis) and nanosleep(&ts, NULL) with ts = {sec, nsec}
usleep(usec) == Pause("usleep", usec \div 1000000, (usec % 1000000) * 1000)

Sleep(millis) == Pause("Sleep", millis \div 1000, (millis % 1000) * 1000000)

nanosleep(sec, nsec) == Pause("nanosleep", sec, nsec)

\* (int)(seconds * 1000000.0f), seconds in pacing units
to_micros(seconds) == seconds \div SubMicro

\* (int)(seconds * 1000.0f), seconds in pacing units
to_millis(seconds) == seconds \div (SubMicro * 1000)

\* _wait_for(seconds), seconds in pacing units: the call it makes.  The last
\* branch sets ts.tv_sec = nanos / 1000000 and ts.tv_nsec = nanos, nanos
\* being the microseconds.
_wait_for(seconds) ==
    CASE platform = "PLATFORM_LINUX" ->
            IF to_micros(seconds) = 0 THEN Pause("sched_yield", 0, 0)
            ELSE usleep(to_micros(seconds))
      [] platform = "PLATFORM_WINDOWS" ->
            IF to_millis(seconds) = 0 THEN Pause("YieldProcessor", 0, 0)
            ELSE Sleep(to_millis(seconds))
      [] OTHER -> nanosleep(to_micros(seconds) \div 1000000, to_micros(seconds))

(***************************************************************************)
(* Engine_run                                                              *)
(***************************************************************************)
InterpreterNames == {"Interpreter_process", "Interpreter_update", "Interpreter_render"}

EngineInit ==
    /\ pc = "test"
    /\ platform \in Platforms
    /\ delta_time \in 1..MaxDelta
    /\ skippable_frames \in 0..MaxSkip
    /\ reference_time \in 1..MaxReference
    /\ running = TRUE
    /\ quit = FALSE
    /\ should_close = FALSE
    /\ lag = 0
    /\ frames = 0
    /\ elapsed = 0
    /\ env_time = 0
    /\ env_fps = <<0, 0>>
    /\ samples = [i \in 0..(FPS_AVERAGE_SAMPLES - 1) |-> 0]
    /\ index = 0
    /\ sum = 0
    /\ display_time = 0
    /\ render_factor = <<0, 0>>
    /\ waited = [leftover |-> 0, pause |-> NoPause]
    /\ calls = <<>>
    /\ total = 0
    /\ updates = 0
    /\ drains = 0
    /\ lag_in = 0
    /\ exhausted = FALSE
    /\ failed = FALSE
    /\ streak = <<0, 0>>

\* (mutant) the frame is presented before it is rendered
Body_present_before_render ==
        <<"clock", "input", "process", "accumulate", "drain", "audio",
          "input_update", "display_update", "present", "render", "pace", "test">>

\* The statements of the loop's body, in program order.
Body == <<"clock", "input", "process", "accumulate", "drain", "audio",
          "input_update", "display_update", "render", "present", "pace", "test">>

Position(seq, p) == CHOOSE i \in 1..Len(seq) : seq[i] = p

\* The statement that follows statement p.
After(p) == Body[Position(Body, p) + 1]

\* (mutant) every interpreter call is made, whatever `running` is
InterpreterCall_eager(name) ==
    \E ok \in BOOLEAN, q \in BOOLEAN :
        /\ running' = (running /\ ok)
        /\ quit' = (quit \/ q)
        /\ failed' = (failed \/ ~ok)
        /\ calls' = Append(calls, name)

\* `running = running && Interpreter_xxx(...)`: the call is made only while
\* running is true; it returns ok and the script may raise environment.quit.
InterpreterCall(name) ==
    IF running
    THEN \E ok \in BOOLEAN, q \in BOOLEAN :
            /\ running' = ok
            /\ quit' = (quit \/ q)
            /\ failed' = (failed \/ ~ok)
            /\ calls' = Append(calls, name)
    ELSE UNCHANGED <<running, quit, failed, calls>>

\* (mutant) the quit flag is not looked at
LoopCondition_without_quit == running /\ ~should_close

\* running && !engine->environment.quit && !Display_should_close(&engine->display)
LoopCondition == running /\ ~quit /\ ~should_close

\* for (bool running = true; <LoopCondition>; )
LoopTest ==
    /\ pc = "test"
    /\ UNCHANGED not_engine_vars
    /\ pc' = IF LoopCondition THEN "clock" ELSE "done"
    /\ waited' = [leftover |-> 0, pause |-> NoPause]
    /\ UNCHANGED <<platform, delta_time, skippable_frames, reference_time, running, quit,
                   should_close, lag, frames, elapsed, env_time, env_fps, samples,
                   index, sum, display_time, render_factor, calls, total,
                   updates, drains, lag_in, exhausted, failed, streak>>

\* current = glfwGetTime(); elapsed = current - previous; fps = _calculate_fps(elapsed)
Clock ==
    /\ pc = "clock"
    /\ UNCHANGED not_engine_vars
    /\ \E e \in 0..MaxElapsed :
        /\ total + e <= MaxTotal
        /\ elapsed' = e
        /\ total' = total + e
        /\ LET r == _calculate_fps(e) IN
             /\ samples' = r.samples
             /\ index' = r.index
             /\ sum' = r.sum
             /\ env_fps' = r.result
        /\ streak' = IF streak[2] > 0 /\ streak[1] = e
                     THEN <<e, IF streak[2] < FPS_AVERAGE_SAMPLES
                               THEN streak[2] + 1 ELSE streak[2]>>
                     ELSE <<e, 1>>
    /\ calls' = <<>>
    /\ render_factor' = <<0, 0>>
    /\ pc' = After(pc)
    /\ UNCHANGED <<platform, delta_time, skippable_frames, reference_time, running, quit,
                   should_close, lag, frames, env_time, display_time, waited, updates,
                   drains, lag_in, exhausted, failed>>

\* Input_process(&engine->input): polls the window's events, which may ask
\* the window to close.
InputProcess ==
    /\ pc = "input"
    /\ UNCHANGED not_engine_vars
    /\ \E c \in BOOLEAN : should_close' = (should_close \/ c)
    /\ calls' = Append(calls, "Input_process")
    /\ pc' = After(pc)
    /\ UNCHANGED <<platform, delta_time, skippable_frames, reference_time, running, quit,
                   lag, frames, elapsed, env_time, env_fps, samples, index, sum,
                   display_time, render_factor, waited, total, updates, drains,
                   lag_in, exhausted, failed, streak>>

\* running = running && Interpreter_process(&engine->interpreter)
InterpreterProcess ==
    /\ pc = "process"
    /\ UNCHANGED not_engine_vars
    /\ InterpreterCall("Interpreter_process")
    /\ pc' = After(pc)
    /\ UNCHANGED <<platform, delta_time, skippable_frames, reference_time, should_close,
                   lag, frames, elapsed, env_time, env_fps, samples, index, sum,
                   display_time, render_factor, waited, total, updates, drains,
                   lag_in, exhausted, streak>>

\* (mutant) the lag left by the previous iteration is dropped
AccumulatedLag_reset == elapsed

\* lag += elapsed
AccumulatedLag == lag + elapsed

\* lag += elapsed; for (size_t frames = skippable_frames; ...
Accumulate ==
    /\ pc = "accumulate"
    /\ UNCHANGED not_engine_vars
    /\ lag' = AccumulatedLag
    /\ lag_in' = AccumulatedLag
    /\ frames' = skippable_frames
    /\ pc' = After(pc)
    /\ UNCHANGED <<platform, delta_time, skippable_frames, reference_time, running, quit,
                   should_close, elapsed, env_time, env_fps, samples, index, sum,
                   display_time, render_factor, waited, calls, total, updates,
                   drains, exhausted, failed, streak>>

\* (mutant) the skip budget is not looked at
DrainCondition_without_budget == lag >= delta_time

\* The condition of the drain loop: frames && (lag >= delta_time)
DrainCondition == frames # 0 /\ lag >= delta_time

\* (mutant) the clock advances only when the update is invoked
AdvancedTime_with_update == IF running THEN env_time + delta_time ELSE env_time

\* engine->environment.time += delta_time
AdvancedTime == env_time + delta_time

\* One pass through the body of the drain loop, and its --frames.
DrainStep ==
    /\ pc = "drain"
    /\ UNCHANGED not_engine_vars
    /\ DrainCondition
    /\ env_time' = AdvancedTime
    /\ InterpreterCall("Interpreter_update")
    /\ updates' = IF running THEN updates + 1 ELSE updates
    /\ lag' = lag - delta_time
    /\ frames' = frames - 1
    /\ drains' = drains + 1
    /\ pc' = "drain"
    /\ UNCHANGED <<platform, delta_time, skippable_frames, reference_time, should_close,
                   elapsed, env_fps, samples, index, sum, display_time,
                   render_factor, waited, total, lag_in, exhausted, streak>>

\* The drain loop ends.
DrainExit ==
    /\ pc = "drain"
    /\ UNCHANGED not_engine_vars
    /\ ~DrainCondition
    /\ exhausted' = (exhausted \/ (frames = 0 /\ lag >= delta_time))
    /\ pc' = After(pc)
    /\ UNCHANGED <<platform, delta_time, skippable_frames, reference_time, running, quit,
                   should_close, lag, frames, elapsed, env_time, env_fps, samples,
                   index, sum, display_time, render_factor, waited, calls, total,
                   updates, drains, lag_in, failed, streak>>

\* Audio_update(&engine->audio, elapsed)
AudioUpdate ==
    /\ pc = "audio"
    /\ UNCHANGED not_engine_vars
    /\ calls' = Append(calls, "Audio_update")
    /\ pc' = After(pc)
    /\ UNCHANGED <<platform, delta_time, skippable_frames, reference_time, running, quit,
                   should_close, lag, frames, elapsed, env_time, env_fps, samples,
                   index, sum, display_time, render_factor, waited, total,
                   updates, drains, lag_in, exhausted, failed, streak>>

\* Input_update(&engine->input, elapsed)
InputUpdate ==
    /\ pc = "input_update"
    /\ UNCHANGED not_engine_vars
    /\ calls' = Append(calls, "Input_update")
    /\ pc' = After(pc)
    /\ UNCHANGED <<platform, delta_time, skippable_frames, reference_time, running, quit,
                   should_close, lag, frames, elapsed, env_time, env_fps, samples,
                   index, sum, display_time, render_factor, waited, total,
                   updates, drains, lag_in, exhausted, failed, streak>>

\* Display_update(&engine->display, elapsed): display->time += delta_time
DisplayUpdate ==
    /\ pc = "display_update"
    /\ UNCHANGED not_engine_vars
    /\ display_time' = display_time + elapsed
    /\ calls' = Append(calls, "Display_update")
    /\ pc' = After(pc)
    /\ UNCHANGED <<platform, delta_time, skippable_frames, reference_time, running, quit,
                   should_close, lag, frames, elapsed, env_time, env_fps, samples,
                   index, sum, render_factor, waited, total, updates, drains,
                   lag_in, exhausted, failed, streak>>

\* running = running && Interpreter_render(&engine->interpreter, lag / delta_time)
InterpreterRender ==
    /\ pc = "render"
    /\ UNCHANGED not_engine_vars
    /\ InterpreterCall("Interpreter_render")
    /\ render_factor' = IF running THEN Fraction(lag, delta_time) ELSE render_factor
    /\ pc' = After(pc)
    /\ UNCHANGED <<platform, delta_time, skippable_frames, reference_time, should_close,
                   lag, frames, elapsed, env_time, env_fps, samples, index, sum,
                   display_time, waited, total, updates, drains, lag_in,
                   exhausted, streak>>

\* Display_present(&engine->display)
DisplayPresent ==
    /\ pc = "present"
    /\ UNCHANGED not_engine_vars
    /\ calls' = Append(calls, "Display_present")
    /\ pc' = After(pc)
    /\ UNCHANGED <<platform, delta_time, skippable_frames, reference_time, running, quit,
                   should_close, lag, frames, elapsed, env_time, env_fps, samples,
                   index, sum, display_time, render_factor, waited, total,
                   updates, drains, lag_in, exhausted, failed, streak>>

\* frame_time = glfwGetTime() - current; leftover = reference_time - frame_time;
\* if (leftover > 0.0f) _wait_for(leftover)
Pace ==
    /\ pc = "pace"
    /\ UNCHANGED not_engine_vars
    /\ \E frame_time \in 0..(reference_time * SubMicro + 1) :
        \E leftover \in {reference_time * SubMicro - frame_time} :
            waited' = [leftover |-> leftover,
                       pause |-> IF leftover > 0 THEN _wait_for(leftover)
                                 ELSE NoPause]
    /\ calls' = Append(calls, "pace")
    /\ pc' = After(pc)
    /\ UNCHANGED <<platform, delta_time, skippable_frames, reference_time, running, quit,
                   should_close, lag, frames, elapsed, env_time, env_fps, samples,
                   index, sum, display_time, render_factor, total, updates,
                   drains, lag_in, exhausted, failed, streak>>


(***************************************************************************)
(* The drawing context: src/src/gl/context.c and src/src/gl/primitive.c.   *)
(* A GL_Color_t is a tuple <<r, g, b, a>>; a GL_Pixel_t is a palette       *)
(* index.  Pointers into the pixel buffer are offsets from its start.      *)
(***************************************************************************)
Pixels == 0..(GL_MAX_PALETTE_COLORS - 1)

\* GL_palette_greyscale(&palette, count): a ramp from black to white.
GL_palette_greyscale(count) ==
    [i \in 0..(count - 1) |->
        LET v == (i * 255) \div (count - 1) IN <<v, v, v, 255>>]

\* (mutant) the rows are laid out by the height, not the width
GL_context_initialize_rows_by_height(width, height) ==
    [width       |-> width,
     height      |-> height,
     vram_rows   |-> [i \in 0..(height - 1) |-> height * i],
     vram_size   |-> width * height,
     background  |-> 0,
     shifting    |-> [i \in Pixels |-> i],
     transparent |-> [i \in Pixels |-> i = 0],
     palette     |-> GL_palette_greyscale(GL_MAX_PALETTE_COLORS)]

\* The context GL_context_initialize(gl, width, height) builds, but the
\* pixels, which malloc() leaves uninitialised.
GL_context_initialize(width, height) ==
    [width       |-> width,
     height      |-> height,
     vram_rows   |-> [i \in 0..(height - 1) |-> width * i],
     vram_size   |-> width * height,
     background  |-> 0,
     shifting    |-> [i \in Pixels |-> i],
     transparent |-> [i \in Pixels |-> i = 0],
     palette     |-> GL_palette_greyscale(GL_MAX_PALETTE_COLORS)]

\* static bool GL_is_visible(gl, position) { return true; }
GL_is_visible(position) == TRUE

\* GL_primitive_point(gl, position, color), on the pixels v.
GL_primitive_point(v, position, color) ==
    IF ~GL_is_visible(position) THEN v
    ELSE LET pixel_index == gl.shifting[color] IN
         IF gl.transparent[pixel_index] THEN v
         ELSE LET rgba == gl.palette[pixel_index]
                  dst  == gl.vram_rows[position.y] + position.x
              IN  [v EXCEPT ![dst] = rgba]

\* (mutant) the run stops one pixel short
GL_primitive_hline_one_short(v, origin, width, color) ==
    IF gl.transparent[gl.shifting[color]] THEN v
    ELSE [o \in DOMAIN v |->
            IF gl.vram_rows[origin.y] + origin.x <= o
                   /\ o < gl.vram_rows[origin.y] + origin.x + width - 1
            THEN gl.palette[gl.shifting[color]] ELSE v[o]]

\* GL_primitive_hline(gl, origin, width, color), on the pixels v.
GL_primitive_hline(v, origin, width, color) ==
    IF ~GL_is_visible(origin) THEN v
    ELSE LET pixel_index == gl.shifting[color] IN
         IF gl.transparent[pixel_index] THEN v
         ELSE LET rgba == gl.palette[pixel_index]
                  dst  == gl.vram_rows[origin.y] + origin.x
              IN  [o \in DOMAIN v |->
                      IF dst <= o /\ o < dst + width THEN rgba ELSE v[o]]

\* GL_primitive_vline(gl, origin, height, color), on the pixels v: every pass
\* of the loop computes dst anew from origin and writes there.
GL_primitive_vline(v, origin, height, color) ==
    IF ~GL_is_visible(origin) THEN v
    ELSE LET pixel_index == gl.shifting[color] IN
         IF gl.transparent[pixel_index] THEN v
         ELSE LET rgba == gl.palette[pixel_index]
                  dst  == gl.vram_rows[origin.y] + origin.x
              IN  IF height > 0 THEN [v EXCEPT ![dst] = rgba] ELSE v

\* (mutant) the two ends of the line are drawn
GL_primitive_line_draws_ends(v, from, to, color) ==
    GL_primitive_point(GL_primitive_point(v, from, color), to, color)

\* GL_primitive_line(gl, from, to, color) and the other primitives whose
\* body is empty, on the pixels v.
GL_primitive_line(v, from, to, color) == v

GL_primitive_rectangle(v, rectangle, color) == v

GL_primitive_filled_rectangle(v, rectangle, color) == v

GL_primitive_circle(v, center, radius, color) == v

GL_primitive_filled_circle(v, center, radius, color) == v

\* GL_context_push(gl) and GL_context_pop(gl): empty bodies.
GL_context_push(v) == v

GL_context_pop(v) == v

\* (mutant) a drawing call puts the tables back as GL_context_initialize
\* leaves them
drawn_context_resets_tables(context) ==
    [context EXCEPT !.shifting = [i \in Pixels |-> i],
                    !.transparent = [i \in Pixels |-> i = 0]]

\* What a drawing call leaves of the context but its pixels: the calls
\* write through gl->vram and gl->vram_rows and assign no field of *gl.
drawn_context(context) == context

\* (mutant) the background goes through the shifting and the transparency
\* tables, as a drawn pixel does
GL_context_clear_as_pixel(v) ==
    IF gl.transparent[gl.shifting[gl.background]] THEN v
    ELSE [o \in 0..(gl.vram_size - 1) |-> gl.palette[gl.shifting[gl.background]]]

\* GL_context_clear(gl), on the pixels v.
GL_context_clear(v) ==
    LET color == gl.palette[gl.background]
    IN  [o \in 0..(gl.vram_size - 1) |-> color]

\* (mutant) transparency is looked up with the raw pixel, not the shifted one
blit_fast_pixel_raw_transparency(v, dst, pixel) ==
    LET pixel_index == gl.shifting[pixel] IN
    IF gl.transparent[pixel] THEN v ELSE [v EXCEPT ![dst] = gl.palette[pixel_index]]

\* The body of the inner loop of GL_context_blit_fast:
\* index = shifting[*(src++)]; if (transparent[index]) dst++; else *(dst++) = colors[index];
blit_fast_pixel(v, dst, pixel) ==
    LET pixel_index == gl.shifting[pixel] IN
    IF gl.transparent[pixel_index] THEN v ELSE [v EXCEPT ![dst] = gl.palette[pixel_index]]

\* (mutant) the destination skips a whole row after each row of the tile
blit_fast_dst_skip_whole_row(tile) == gl.width

\* const size_t dst_skip = context->width - tile.width;
blit_fast_dst_skip(tile) == gl.width - tile.width

\* The loops of GL_context_blit_fast, from row i and column j on, with the
\* pointers src and dst.
RECURSIVE blit_fast_loop(_, _, _, _, _, _, _)
blit_fast_loop(v, surface, tile, src, dst, i, j) ==
    LET src_skip == surface.width - tile.width
        dst_skip == blit_fast_dst_skip(tile)
    IN  IF i >= tile.height THEN v
        ELSE IF j >= tile.width
             THEN blit_fast_loop(v, surface, tile, src + src_skip, dst + dst_skip, i + 1, 0)
             ELSE blit_fast_loop(blit_fast_pixel(v, dst, surface.data[src]),
                                 surface, tile, src + 1, dst + 1, i, j + 1)

\* GL_context_blit_fast(context, surface, tile, position), on the pixels v.
GL_context_blit_fast(v, surface, tile, position) ==
    LET src == surface.data_rows[tile.y] + tile.x
        dst == gl.vram_rows[position.y] + position.x
    IN  blit_fast_loop(v, surface, tile, src, dst, 0, 0)

\* The body of the inner loop of GL_context_blit.
blit_pixel(v, dst, pixel) ==
    LET pixel_index == gl.shifting[pixel] IN
    IF gl.transparent[pixel_index] THEN v ELSE [v EXCEPT ![dst] = gl.palette[pixel_index]]

\* The loops of GL_context_blit.
RECURSIVE blit_loop(_, _, _, _, _, _, _)
blit_loop(v, surface, tile, src, dst, i, j) ==
    LET src_skip == surface.width - tile.width
        dst_skip == gl.width - tile.width
    IN  IF i >= tile.height THEN v
        ELSE IF j >= tile.width
             THEN blit_loop(v, surface, tile, src + src_skip, dst + dst_skip, i + 1, 0)
             ELSE blit_loop(blit_pixel(v, dst, surface.data[src]),
                            surface, tile, src + 1, dst + 1, i, j + 1)

\* (mutant) a blit that is scaled or rotated draws nothing
GL_context_blit_plain_only(v, surface, tile, position, scale, rotation) ==
    IF scale = 1 /\ rotation = 0
    THEN blit_loop(v, surface, tile,
                   surface.data_rows[tile.y] + tile.x,
                   gl.vram_rows[position.y] + position.x, 0, 0)
    ELSE v

\* GL_context_blit(context, surface, tile, position, scale, rotation), on the
\* pixels v: scale and rotation are not used.
GL_context_blit(v, surface, tile, position, scale, rotation) ==
    LET src == surface.data_rows[tile.y] + tile.x
        dst == gl.vram_rows[position.y] + position.x
    IN  blit_loop(v, surface, tile, src, dst, 0, 0)

(***************************************************************************)
(* The inputs of the drawing calls.  Coordinates lie within the buffers:   *)
(* the primitives do not clip, and a call that leaves the buffer is the    *)
(* caller's error.                                                         *)
(***************************************************************************)
Points == [x : 0..(Width - 1), y : 0..(Height - 1)]

\* The shifting tables the context is drawn with: the identity, a rotation
\* of the palette, and every constant table.
ShiftingTables ==
    {[i \in Pixels |-> i], [i \in Pixels |-> (i + 1) % GL_MAX_PALETTE_COLORS]}
        \cup {[i \in Pixels |-> c] : c \in Pixels}

TransparentTables == [Pixels -> BOOLEAN]

\* A colour that is in no palette: what uninitialised memory may hold.
Garbage == <<1, 2, 3, 4>>

\* The pixels before the first drawing call: uninitialised memory, or a
\* frame drawn earlier.
InitialVram ==
    LET colors == GL_palette_greyscale(GL_MAX_PALETTE_COLORS) IN
    {[o \in 0..(Width * Height - 1) |-> c] :
         c \in {colors[i] : i \in Pixels} \cup {Garbage}}
      \cup {[o \in 0..(Width * Height - 1) |-> colors[o % GL_MAX_PALETTE_COLORS]]}

\* The source surfaces: wider than the context, holding every pixel value.
SurfaceWidth == Width + 1
SurfaceHeight == Height

Surfaces ==
    {[width     |-> SurfaceWidth,
      height    |-> SurfaceHeight,
      data      |-> [o \in 0..(SurfaceWidth * SurfaceHeight - 1) |->
                        (o + k) % GL_MAX_PALETTE_COLORS],
      data_rows |-> [r \in 0..(SurfaceHeight - 1) |-> SurfaceWidth * r]] :
        k \in Pixels}

\* The tiles of a surface that fit the context at some position.
Tiles ==
    {t \in [x : 0..(SurfaceWidth - 1), y : 0..(SurfaceHeight - 1),
            width : 1..Width, height : 1..Height] :
        t.x + t.width <= SurfaceWidth /\ t.y + t.height <= SurfaceHeight}

Fits(tile, position) ==
    position.x + tile.width <= Width /\ position.y + tile.height <= Height

Scales == {1, 2}
Rotations == {0, 90}

\* The rectangles and the radii given to the primitives that draw nothing.
Rectangles == [x : 0..(Width - 1), y : 0..(Height - 1), width : {0, Width},
               height : {0, Height}]

Radii == {0, Width}

GLInit ==
    /\ \E s \in ShiftingTables, t \in TransparentTables :
          gl = [GL_context_initialize(Width, Height)
                    EXCEPT !.shifting = s, !.transparent = t]
    /\ vram \in InitialVram
    /\ gl_op = [name |-> "none"]
    /\ gl_prev = vram

\* The context while another part of the program is followed.
GLIdle ==
    /\ gl = GL_context_initialize(Width, Height)
    /\ vram = [o \in 0..(Width * Height - 1) |-> Garbage]
    /\ gl_op = [name |-> "none"]
    /\ gl_prev = vram

\* The model follows one drawing call on the initial pixels; the pixels can
\* be cleared at any time.
CanDraw == gl_op.name = "none"

ContextClear ==
    /\ vram' = GL_context_clear(vram)
    /\ gl_prev' = vram
    /\ gl_op' = [name |-> "GL_context_clear"]
    /\ gl' = drawn_context(gl)
    /\ UNCHANGED not_gl_vars

PrimitivePoint ==
    /\ CanDraw
    /\ \E position \in Points, color \in Pixels :
        /\ vram' = GL_primitive_point(vram, position, color)
        /\ gl_op' = [name |-> "GL_primitive_point", position |-> position,
                     color |-> color]
    /\ gl_prev' = vram
    /\ gl' = drawn_context(gl)
    /\ UNCHANGED not_gl_vars

PrimitiveHLine ==
    /\ CanDraw
    /\ \E origin \in Points, width \in 0..Width, color \in Pixels :
        /\ origin.x + width <= Width
        /\ vram' = GL_primitive_hline(vram, origin, width, color)
        /\ gl_op' = [name |-> "GL_primitive_hline", origin |-> origin,
                     width |-> width, color |-> color]
    /\ gl_prev' = vram
    /\ gl' = drawn_context(gl)
    /\ UNCHANGED not_gl_vars

PrimitiveVLine ==
    /\ CanDraw
    /\ \E origin \in Points, height \in 0..Height, color \in Pixels :
        /\ origin.y + height <= Height
        /\ vram' = GL_primitive_vline(vram, origin, height, color)
        /\ gl_op' = [name |-> "GL_primitive_vline", origin |-> origin,
                     height |-> height, color |-> color]
    /\ gl_prev' = vram
    /\ gl' = drawn_context(gl)
    /\ UNCHANGED not_gl_vars

ContextBlit ==
    /\ CanDraw
    /\ \E surface \in Surfaces, tile \in Tiles, position \in Points,
          scale \in Scales, rotation \in Rotations :
        /\ Fits(tile, position)
        /\ vram' = GL_context_blit(vram, surface, tile, position, scale, rotation)
        /\ gl_op' = [name |-> "GL_context_blit", surface |-> surface,
                     tile |-> tile, position |-> position, scale |-> scale,
                     rotation |-> rotation]
    /\ gl_prev' = vram
    /\ gl' = drawn_context(gl)
    /\ UNCHANGED not_gl_vars

ContextBlitFast ==
    /\ CanDraw
    /\ \E surface \in Surfaces, tile \in Tiles, position \in Points :
        /\ Fits(tile, position)
        /\ vram' = GL_context_blit_fast(vram, surface, tile, position)
        /\ gl_op' = [name |-> "GL_context_blit_fast", surface |-> surface,
                     tile |-> tile, position |-> position]
    /\ gl_prev' = vram
    /\ gl' = drawn_context(gl)
    /\ UNCHANGED not_gl_vars

PrimitiveLine ==
    /\ CanDraw
    /\ \E from \in Points, to \in Points, color \in Pixels :
        /\ vram' = GL_primitive_line(vram, from, to, color)
        /\ gl_op' = [name |-> "GL_primitive_line", from |-> from, to |-> to,
                     color |-> color]
    /\ gl_prev' = vram
    /\ gl' = drawn_context(gl)
    /\ UNCHANGED not_gl_vars

PrimitiveRectangle ==
    /\ CanDraw
    /\ \E rectangle \in Rectangles, color \in Pixels :
        /\ vram' = GL_primitive_rectangle(vram, rectangle, color)
        /\ gl_op' = [name |-> "GL_primitive_rectangle", rectangle |-> rectangle,
                     color |-> color]
    /\ gl_prev' = vram
    /\ gl' = drawn_context(gl)
    /\ UNCHANGED not_gl_vars

PrimitiveFilledRectangle ==
    /\ CanDraw
    /\ \E rectangle \in Rectangles, color \in Pixels :
        /\ vram' = GL_primitive_filled_rectangle(vram, rectangle, color)
        /\ gl_op' = [name |-> "GL_primitive_filled_rectangle",
                     rectangle |-> rectangle, color |-> color]
    /\ gl_prev' = vram
    /\ gl' = drawn_context(gl)
    /\ UNCHANGED not_gl_vars

PrimitiveCircle ==
    /\ CanDraw
    /\ \E center \in Points, radius \in Radii, color \in Pixels :
        /\ vram' = GL_primitive_circle(vram, center, radius, color)
        /\ gl_op' = [name |-> "GL_primitive_circle", center |-> center,
                     radius |-> radius, color |-> color]
    /\ gl_prev' = vram
    /\ gl' = drawn_context(gl)
    /\ UNCHANGED not_gl_vars

PrimitiveFilledCircle ==
    /\ CanDraw
    /\ \E center \in Points, radius \in Radii, color \in Pixels :
        /\ vram' = GL_primitive_filled_circle(vram, center, radius, color)
        /\ gl_op' = [name |-> "GL_primitive_filled_circle", center |-> center,
                     radius |-> radius, color |-> color]
    /\ gl_prev' = vram
    /\ gl' = drawn_context(gl)
    /\ UNCHANGED not_gl_vars

ContextPush ==
    /\ CanDraw
    /\ vram' = GL_context_push(vram)
    /\ gl_op' = [name |-> "GL_context_push"]
    /\ gl_prev' = vram
    /\ gl' = drawn_context(gl)
    /\ UNCHANGED not_gl_vars

ContextPop ==
    /\ CanDraw
    /\ vram' = GL_context_pop(vram)
    /\ gl_op' = [name |-> "GL_context_pop"]
    /\ gl_prev' = vram
    /\ gl' = drawn_context(gl)
    /\ UNCHANGED not_gl_vars

GLNext ==
    \/ ContextClear
    \/ PrimitivePoint
    \/ PrimitiveHLine
    \/ PrimitiveVLine
    \/ ContextBlit
    \/ ContextBlitFast
    \/ PrimitiveLine
    \/ PrimitiveRectangle
    \/ PrimitiveFilledRectangle
    \/ PrimitiveCircle
    \/ PrimitiveFilledCircle
    \/ ContextPush
    \/ ContextPop

(***************************************************************************)
(* Shader programs: src/src/gl/program.c, and Display_shader of            *)
(* src/src/core/io/display.c (which calls them program_create, ...).       *)
(*                                                                         *)
(* A call works on a record st:                                            *)
(*   programs, active_program   the fields of Display_t; active_program is *)
(*                              the slot it points to, or NULL             *)
(*   objects                    the driver's program objects, by name      *)
(*   current                    the program glUseProgram last installed    *)
(*   creates, deletes, sends, log   what the call did so far               *)
(* glDeleteProgram is taken to delete at once.                             *)
(***************************************************************************)
DISPLAY_PROGRAM_PASSTHRU == 0
DISPLAY_PROGRAM_CUSTOM == 1
NULL == -1

Slots == {DISPLAY_PROGRAM_PASSTHRU, DISPLAY_PROGRAM_CUSTOM}

\* (GL_Program_t){}: a slot that holds no program
NoProgram == [id |-> 0, prepared |-> FALSE]

\* What the driver may answer to GL_program_attach.
AttachOutcomes == {"no_shader", "compile_error", "link_error", "ok"}

\* GL_program_create(program); id is what glCreateProgram() returns.
GL_program_create(st, slot, id) ==
    IF id = 0
    THEN [st |-> [st EXCEPT !.log = Append(@, "can't create shader program")],
          ok |-> FALSE]
    ELSE [st |-> [st EXCEPT
                    !.objects = [n \in DOMAIN @ \cup {id} |->
                                   IF n = id THEN [attached |-> 0, linked |-> FALSE]
                                   ELSE @[n]],
                    !.creates = Append(@, id),
                    !.programs[slot] = [id |-> id, prepared |-> FALSE]],
          ok |-> TRUE]

\* (mutant) the slot keeps the name of the deleted program
GL_program_delete_keeps_id(st, slot) ==
    LET id == st.programs[slot].id IN
    [st EXCEPT
        !.objects = [n \in DOMAIN @ \ {id} |-> @[n]],
        !.deletes = Append(@, id)]

\* GL_program_delete(program): detaches the shaders, glDeleteProgram(id),
\* and clears the slot.  glDeleteProgram(0) does nothing.
GL_program_delete(st, slot) ==
    LET id == st.programs[slot].id IN
    [st EXCEPT
        !.objects = [n \in DOMAIN @ \ {id} |-> @[n]],
        !.deletes = Append(@, id),
        !.programs[slot] = NoProgram]

\* How many times n occurs in the sequence s.
Occurrences(s, n) == Cardinality({i \in DOMAIN s : s[i] = n})

\* (mutant) after a link error the shader stays attached
shader_calls_no_detach(outcome) ==
    CASE outcome = "no_shader" -> <<"glCreateShader">>
      [] outcome = "compile_error" ->
            <<"glCreateShader", "glShaderSource", "glCompileShader",
              "glDeleteShader">>
      [] outcome \in {"link_error", "ok"} ->
            <<"glCreateShader", "glShaderSource", "glCompileShader",
              "glAttachShader", "glLinkProgram", "glDeleteShader">>

\* The calls GL_program_attach makes on the driver for its shader, in
\* order; with "no_shader" glCreateShader returns 0 and no shader exists.
shader_calls(outcome) ==
    CASE outcome = "no_shader" -> <<"glCreateShader">>
      [] outcome = "compile_error" ->
            <<"glCreateShader", "glShaderSource", "glCompileShader",
              "glDeleteShader">>
      [] outcome = "link_error" ->
            <<"glCreateShader", "glShaderSource", "glCompileShader",
              "glAttachShader", "glLinkProgram", "glDetachShader",
              "glDeleteShader">>
      [] outcome = "ok" ->
            <<"glCreateShader", "glShaderSource", "glCompileShader",
              "glAttachShader", "glLinkProgram", "glDeleteShader">>

\* The shaders the calls leave attached to the program, more than before.
left_attached(shader) ==
    Occurrences(shader, "glAttachShader") - Occurrences(shader, "glDetachShader")

\* `success` as GL_program_attach returns it: the compile status, replaced
\* by the link status when the shader compiled.
attach_success(outcome) == outcome = "ok"

\* GL_program_attach(program, shader_code, shader_type); outcome is what the
\* driver answers: no shader object, a compile error, a link error, or ok.
GL_program_attach(st, slot, outcome) ==
    LET id == st.programs[slot].id
        shader == shader_calls(outcome)
        attach == [outcome |-> outcome, calls |-> shader,
                   attached |-> left_attached(shader),
                   ok |-> attach_success(outcome)]
    IN
    CASE outcome = "no_shader" ->
            [st |-> [st EXCEPT !.log = Append(@, "can't create shader"),
                               !.attaches = Append(@, attach)],
             ok |-> attach_success(outcome)]
      [] outcome = "compile_error" ->
            [st |-> [st EXCEPT !.log = Append(@, "shader compile error"),
                               !.attaches = Append(@, attach)],
             ok |-> attach_success(outcome)]
      [] outcome = "link_error" ->
            [st |-> [st EXCEPT !.objects[id].attached = @ + left_attached(shader),
                               !.objects[id].linked = FALSE,
                               !.log = Append(@, "program link error"),
                               !.attaches = Append(@, attach)],
             ok |-> attach_success(outcome)]
      [] outcome = "ok" ->
            [st |-> [st EXCEPT !.objects[id].attached = @ + left_attached(shader),
                               !.objects[id].linked = TRUE,
                               !.attaches = Append(@, attach)],
             ok |-> attach_success(outcome)]

\* program_prepare(program, _uniforms, count): looks the uniforms up.
program_prepare(st, slot) ==
    [st EXCEPT !.programs[slot].prepared = TRUE]

\* GL_program_use(program)
GL_program_use(st, slot) ==
    [st EXCEPT !.current = st.programs[slot].id]

\* A program that can be used: a linked program object of the driver.
Usable(objects, id) ==
    id # 0 /\ id \in DOMAIN objects /\ objects[id].linked

\* GL_program_send(program, id, type, count, value): returns at once when
\* the uniform has no location, which is so for a program that is not linked.
GL_program_send(st, slot, uniform) ==
    LET id == st.programs[slot].id IN
    IF ~Usable(st.objects, id)
    THEN [st EXCEPT !.log = Append(@, "can't find uniform")]
    ELSE [st EXCEPT !.current = id, !.sends = Append(@, <<id, uniform>>)]

\* (mutant) the active program is compared with the wrong slot
is_passthru_wrong_slot(st) == st.active_program = DISPLAY_PROGRAM_CUSTOM

\* is_passthru = display->active_program == &display->programs[DISPLAY_PROGRAM_PASSTHRU]
is_passthru(st) == st.active_program = DISPLAY_PROGRAM_PASSTHRU

\* The else branch of Display_shader: the custom program is built from the
\* effect; it becomes the active program only when it was created and both
\* shaders were attached.
load_custom_shader(st, id, vertex, fragment) ==
    LET program == DISPLAY_PROGRAM_CUSTOM
        c == GL_program_create(st, program, id)
        v == IF c.ok THEN GL_program_attach(c.st, program, vertex) ELSE c
        f == IF v.ok THEN GL_program_attach(v.st, program, fragment) ELSE v
    IN  IF f.ok
        THEN [program_prepare(f.st, program) EXCEPT !.active_program = program]
        ELSE [GL_program_delete(f.st, program) EXCEPT
                !.log = Append(@, "can't load custom shader")]

\* Display_shader(display, effect); id, vertex and fragment are what the
\* driver answers when the custom program is built.
Display_shader(st, effect, id, vertex, fragment) ==
    IF is_passthru(st) /\ effect = NULL
    THEN [st EXCEPT !.log = Append(@, "pass-thru shader already active, bailing out")]
    ELSE
    LET s1 == IF ~is_passthru(st) /\ st.active_program # NULL
              THEN GL_program_delete(st, st.active_program)
              ELSE st
        s2 == IF effect = NULL
              THEN [GL_program_delete(s1, DISPLAY_PROGRAM_CUSTOM) EXCEPT
                      !.active_program = DISPLAY_PROGRAM_PASSTHRU]
              ELSE load_custom_shader(s1, id, vertex, fragment)
        s3 == GL_program_use(s2, s2.active_program)
        s4 == GL_program_send(s3, s3.active_program, "u_texture0")
    IN  GL_program_send(s4, s4.active_program, "u_resolution")

\* The record a call starts from.
CallState(d, g) ==
    [programs |-> d.programs, active_program |-> d.active_program,
     objects |-> g.objects, current |-> g.current,
     creates |-> <<>>, deletes |-> <<>>, sends |-> <<>>, log |-> <<>>,
     attaches |-> <<>>]

DisplayOf(st) == [programs |-> st.programs, active_program |-> st.active_program]

DriverOf(st) == [objects |-> st.objects, current |-> st.current]

\* The loop of Display_initialize over the programs, when it succeeds: the
\* pass-through program is created with its two shaders and prepared, the
\* custom slot is left empty and no program is active yet.
Display_programs(id) ==
    LET zero == [programs |-> [i \in Slots |-> NoProgram], active_program |-> NULL,
                 objects |-> << >>, current |-> 0,
                 creates |-> <<>>, deletes |-> <<>>, sends |-> <<>>, log |-> <<>>,
                 attaches |-> <<>>]
        program == DISPLAY_PROGRAM_PASSTHRU
        c == GL_program_create(zero, program, id)
        v == GL_program_attach(c.st, program, "ok")
        f == GL_program_attach(v.st, program, "ok")
    IN  program_prepare(f.st, program)

ProgramIds == 1..MaxProgramIds

\* The display after Display_initialize; the last call on it is the
\* Display_shader(display, NULL) that Display_initialize ends with, made
\* while no program was active.
DisplayInit ==
    \E id \in ProgramIds :
        LET before == Display_programs(id)
            st == Display_shader(CallState(DisplayOf(before), DriverOf(before)),
                                 NULL, 0, "ok", "ok")
        IN
        /\ display = DisplayOf(st)
        /\ driver = DriverOf(st)
        /\ display_prev = [display |-> DisplayOf(before), driver |-> DriverOf(before)]
        /\ display_op = [name |-> "Display_shader", effect |-> NULL, id |-> 0,
                         vertex |-> "ok", fragment |-> "ok",
                         creates |-> st.creates, deletes |-> st.deletes,
                         sends |-> st.sends, log |-> st.log,
                          attaches |-> st.attaches]

\* The display while another part of the program is followed.
DisplayIdle ==
    /\ DisplayInit
    /\ display.programs[DISPLAY_PROGRAM_PASSTHRU].id = 1

\* The names glCreateProgram may return: 0 (it failed) or a name not in use.
CreateAnswers == {0} \cup (ProgramIds \ DOMAIN driver.objects)

\* Display_shader(display, NULL)
DisplayShaderNull ==
    /\ LET st == Display_shader(CallState(display, driver), NULL, 0, "ok", "ok") IN
        /\ display' = DisplayOf(st)
        /\ driver' = DriverOf(st)
        /\ display_op' = [name |-> "Display_shader", effect |-> NULL, id |-> 0,
                          vertex |-> "ok", fragment |-> "ok",
                          creates |-> st.creates, deletes |-> st.deletes,
                          sends |-> st.sends, log |-> st.log,
                          attaches |-> st.attaches]
    /\ display_prev' = [display |-> display, driver |-> driver]
    /\ UNCHANGED not_display_vars

\* Display_shader(display, effect) with the source of an effect.  The custom
\* program is created after the active one, if custom, was deleted.
DisplayShaderEffect ==
    /\ \E vertex \in AttachOutcomes, fragment \in AttachOutcomes :
       \E id \in CreateAnswers \cup
                 (IF display.active_program = DISPLAY_PROGRAM_CUSTOM
                  THEN {display.programs[DISPLAY_PROGRAM_CUSTOM].id} ELSE {}) :
        LET st == Display_shader(CallState(display, driver), 1, id, vertex, fragment) IN
        /\ display' = DisplayOf(st)
        /\ driver' = DriverOf(st)
        /\ display_op' = [name |-> "Display_shader", effect |-> 1, id |-> id,
                          vertex |-> vertex, fragment |-> fragment,
                          creates |-> st.creates, deletes |-> st.deletes,
                          sends |-> st.sends, log |-> st.log,
                          attaches |-> st.attaches]
    /\ display_prev' = [display |-> display, driver |-> driver]
    /\ UNCHANGED not_display_vars

DisplayNext ==
    \/ DisplayShaderNull
    \/ DisplayShaderEffect

(***************************************************************************)
(* Start-up and shutdown: compute_size, Display_initialize,                *)
(* Display_terminate and Display_present of src/src/core/io/display.c,     *)
(* Engine_initialize and Engine_terminate of src/src/core/engine.c.        *)
(*                                                                         *)
(* A call on the display works on a record that has the fields of a call   *)
(* on the programs (see above) and                                         *)
(*   events     the calls made on GLFW, GL and the heap, in order          *)
(*   held       the resources acquired and not released                    *)
(*   released   the resources released, in the order of their release      *)
(*   stale      the resources released or used while not held              *)
(*   window_width, window_height, window_scale, physical_width,            *)
(*   physical_height, vram_destination, position   what compute_size sets  *)
(*   vram_entries   the number of colours the true-colour buffer holds     *)
(***************************************************************************)
imin(a, b) == IF a < b THEN a ELSE b

\* (mutant) the scale that fits the width, whatever the height
max_scale_of_width(configuration, monitor) ==
    monitor.display_width \div configuration.width

\* (mutant) the scale that fits the height, whatever the width
max_scale_of_height(configuration, monitor) ==
    monitor.display_height \div configuration.height

\* int max_scale = imin(display_width / configuration->width,
\*                      display_height / configuration->height)
max_scale(configuration, monitor) ==
    imin(monitor.display_width \div configuration.width,
         monitor.display_height \div configuration.height)

\* (mutant) the requested scale is taken as it is
clamp_scale_never(scale, max) == scale

\* if (scale > max_scale) { scale = max_scale; }
clamp_scale(scale, max) == IF scale > max THEN max ELSE scale

\* (mutant) the window is put at the far edge of the display
centered_at_far_edge(outer, inner) == outer - inner

\* (display_width - display->window_width) / 2: where a window starts that
\* is centered on the display.
centered(outer, inner) == (outer - inner) \div 2

\* compute_size(display, configuration, &position); monitor is what
\* glfwGetMonitorWorkarea answers.
compute_size(st, configuration, monitor) ==
    LET max == max_scale(configuration, monitor)
        requested == IF configuration.scale # 0 THEN configuration.scale ELSE max
        scale == clamp_scale(requested, max)
        s0 == [st EXCEPT !.window_width = configuration.width,
                         !.window_height = configuration.height,
                         !.window_scale = 1]
        w == configuration.width * scale
        h == configuration.height * scale
        x == centered(monitor.display_width, w)
        y == centered(monitor.display_height, h)
    IN
    IF max = 0
    THEN [st |-> [s0 EXCEPT !.log = Append(@, "requested display size can't fit display!")],
          ok |-> FALSE]
    ELSE [st |-> [s0 EXCEPT
                    !.log = IF requested > max
                            THEN Append(@, "requested scaling too big, forcing")
                            ELSE @,
                    !.window_width = w,
                    !.window_height = h,
                    !.window_scale = scale,
                    !.vram_destination =
                        IF ~configuration.fullscreen
                        THEN <<0, 0, w, h>>
                        ELSE <<x, y, x + w, y + h>>,
                    !.physical_width =
                        IF ~configuration.fullscreen THEN w ELSE monitor.display_width,
                    !.physical_height =
                        IF ~configuration.fullscreen THEN h ELSE monitor.display_height,
                    !.position =
                        IF ~configuration.fullscreen THEN <<x, y>> ELSE <<0, 0>>],
          ok |-> TRUE]

\* *display = (Display_t){ 0 }, before anything is acquired.
DisplayZero ==
    [programs |-> [i \in Slots |-> NoProgram], active_program |-> NULL,
     objects |-> << >>, current |-> 0,
     creates |-> <<>>, deletes |-> <<>>, sends |-> <<>>, log |-> <<>>,
     attaches |-> <<>>,
     events |-> <<>>, held |-> {}, released |-> <<>>, stale |-> {},
     window_width |-> 0, window_height |-> 0, window_scale |-> 0,
     physical_width |-> 0, physical_height |-> 0,
     vram_destination |-> <<0, 0, 0, 0>>, position |-> <<0, 0>>,
     vram_entries |-> 0]

\* A call that acquires and releases nothing.
Call(st, name) == [st EXCEPT !.events = Append(@, name)]

\* A call that acquires resource r.
Acquire(st, name, r) ==
    [st EXCEPT !.events = Append(@, name), !.held = @ \cup {r}]

\* A call that releases resource r; releasing what is not held is noted.
Release(st, name, r) ==
    [st EXCEPT !.events = Append(@, name),
               !.held = @ \ {r},
               !.released = IF r \in st.held THEN Append(@, r) ELSE @,
               !.stale = IF r \in st.held THEN @ ELSE @ \cup {r}]

\* A call on GL, which needs the context of the window.
UseContext(st, name) ==
    [st EXCEPT !.events = Append(@, name),
               !.stale = IF "window" \in st.held THEN @ ELSE @ \cup {"window"}]

\* glfwTerminate()
glfwTerminate(st) == Release(st, "glfwTerminate", "glfw")

\* glfwDestroyWindow(display->window): destroys the window and its context,
\* and with the context the texture and the programs created in it.
glfwDestroyWindow(st) ==
    [Release(st, "glfwDestroyWindow", "window") EXCEPT
        !.held = @ \ {"texture"},
        !.released = IF "texture" \in st.held THEN Append(@, "texture") ELSE @,
        !.objects = << >>]

\* GL_context_delete(&display->gl)
GL_context_delete(st) == Release(st, "GL_context_delete", "gl")

\* free(display->vram); free(NULL) does nothing.
free_vram(st) ==
    IF "vram" \in st.held THEN Release(st, "free", "vram") ELSE Call(st, "free")

\* glDeleteBuffers(1, &display->vram_texture): deletes the buffer object of
\* that name, if there is one; the program creates none, and a texture is
\* no buffer object.
glDeleteBuffers(st) == UseContext(st, "glDeleteBuffers")

\* program_delete(&display->programs[slot]) as a call of the display
program_delete(st, slot) ==
    [GL_program_delete(st, slot) EXCEPT
        !.events = Append(@, "program_delete"),
        !.released = IF st.programs[slot].id \in DOMAIN st.objects
                     THEN Append(@, "program") ELSE @]

\* display->configuration.width * display->configuration.width, the number
\* of GL_Color_t the buffer is allocated for
vram_size(configuration) == configuration.width * configuration.width

\* What the environment answers to Display_initialize when nothing fails;
\* id is the name glCreateProgram gives the pass-through program.
AllOk(id) ==
    [glfw |-> TRUE, window |-> TRUE, glad |-> TRUE, gl |-> TRUE, vram |-> TRUE,
     texture |-> TRUE, id |-> id, vertex |-> "ok", fragment |-> "ok"]

\* The unwinding of Display_initialize from the true-colour buffer down.
unwind_from_vram(st) ==
    glfwTerminate(glfwDestroyWindow(GL_context_delete(free_vram(st))))

\* glfwSetWindowMonitor(...), and glfwShowWindow(display->window) when the
\* display is not full-screen
show_window(st, configuration) ==
    IF ~configuration.fullscreen
    THEN Call(Call(st, "glfwSetWindowMonitor"), "glfwShowWindow")
    ELSE Call(st, "glfwSetWindowMonitor")

\* display->vram = malloc(...); when it answers NULL the context, the window
\* and GLFW are released, and the function does not return.
allocate_vram(st, configuration, ok) ==
    IF ok
    THEN [Acquire(st, "malloc", "vram") EXCEPT
            !.vram_entries = vram_size(configuration)]
    ELSE glfwTerminate(glfwDestroyWindow(GL_context_delete(
           [Call(st, "malloc") EXCEPT
              !.log = Append(@, "can't allocate VRAM buffer")])))

\* glGenTextures(1, &display->vram_texture); a texture needs the context of
\* the window.
generate_texture(st, ok) ==
    IF ok /\ "window" \in st.held
    THEN [UseContext(st, "glGenTextures") EXCEPT !.held = @ \cup {"texture"}]
    ELSE UseContext(st, "glGenTextures")

\* ... || !GL_program_attach(&display->programs[i], shader, type): the shader
\* is attached only when what came before succeeded.
or_attach(r, slot, outcome) ==
    IF r.ok
    THEN GL_program_attach(Call(r.st, "program_attach"), slot, outcome)
    ELSE r

\* Display_initialize(display, configuration, title); monitor is the work
\* area of the primary monitor and a is what GLFW, GL and the heap answer.
\* When the buffer cannot be allocated the code releases the context, the
\* window and GLFW and goes on with the texture: what the GL calls made then
\* answer is not defined, and a.texture, a.id, a.vertex and a.fragment stand
\* for whatever they do answer.
Display_initialize(configuration, monitor, a) ==
    LET s1 == Acquire(DisplayZero, "glfwInit", "glfw")
        s2 == Acquire(s1, "glfwCreateWindow", "window")
        s3 == Call(s2, "gladLoadGLLoader")
        s4 == Acquire(s3, "GL_context_create", "gl")
        cs == compute_size(Call(s4, "compute_size"), configuration, monitor)
        s5 == show_window(cs.st, configuration)
        s6 == allocate_vram(s5, configuration, a.vram)
        s7 == generate_texture(s6, a.texture)
        s8 == UseContext(s7, "glTexImage2D")
        program == DISPLAY_PROGRAM_PASSTHRU
        c == GL_program_create(Call(s8, "program_create"), program, a.id)
        v == or_attach(c, program, a.vertex)
        f == or_attach(v, program, a.fragment)
        s9 == Call(program_prepare(f.st, program), "program_prepare")
    IN
    IF ~a.glfw
    THEN [st |-> Call(DisplayZero, "glfwInit"), ok |-> FALSE]
    ELSE IF ~a.window
    THEN [st |-> glfwTerminate(Call(s1, "glfwCreateWindow")), ok |-> FALSE]
    ELSE IF ~a.glad
    THEN [st |-> glfwTerminate(glfwDestroyWindow(s3)), ok |-> FALSE]
    ELSE IF ~a.gl
    THEN [st |-> glfwTerminate(glfwDestroyWindow(Call(s3, "GL_context_create"))),
          ok |-> FALSE]
    ELSE IF ~cs.ok
    THEN [st |-> glfwTerminate(glfwDestroyWindow(cs.st)), ok |-> FALSE]
    ELSE IF ~a.texture
    THEN [st |-> unwind_from_vram(
                   [s7 EXCEPT !.log = Append(@, "can't allocate VRAM texture")]),
          ok |-> FALSE]
    ELSE IF ~f.ok
    THEN [st |-> unwind_from_vram(glDeleteBuffers(
                   [f.st EXCEPT !.log = Append(@, "can't initialize shaders")])),
          ok |-> FALSE]
    ELSE [st |-> Call(Display_shader(Call(s9, "Display_shader"), NULL, 0, "ok", "ok"),
                      "return"),
          ok |-> TRUE]

\* Display_terminate(display)
Display_terminate(st) ==
    LET delete(s, i) ==
          IF s.programs[i].id = 0 THEN s ELSE program_delete(s, i)
    IN  glfwTerminate(glfwDestroyWindow(GL_context_delete(free_vram(
            glDeleteBuffers(delete(delete(st, DISPLAY_PROGRAM_PASSTHRU),
                                   DISPLAY_PROGRAM_CUSTOM))))))

\* The number of colours Display_present converts and uploads:
\* GL_surface_to_rgba fills one entry for each pixel of the canvas, and
\* glTexSubImage2D reads width x height entries.
present_entries(configuration) == configuration.width * configuration.height

\* *engine = (Engine_t){ 0 }: nothing is acquired.  The record of the engine
\* has events, held, released and stale as the display's has, for the
\* sub-systems and the chunks the engine loads, and the display itself.
EngineZero ==
    [events |-> <<>>, held |-> {}, released |-> <<>>, stale |-> {},
     display |-> DisplayZero]

\* Display_terminate(&engine->display) as a call of the engine
terminate_display(en) ==
    [Release(en, "Display_terminate", "display") EXCEPT
        !.display = Display_terminate(@)]

\* FS_release(engine->display.configuration.icon); releasing the chunk of
\* no file does nothing.
release_icon(en) ==
    IF "icon" \in en.held THEN Release(en, "FS_release", "icon")
    ELSE Call(en, "FS_release")

\* A call that acquires resource r when it succeeds.
Attempt(st, name, r, ok) == IF ok THEN Acquire(st, name, r) ELSE Call(st, name)

\* Display_initialize(&engine->display, ...) as a call of the engine; result
\* is what it leaves and returns.
initialize_display(en, d) ==
    [Attempt(en, "Display_initialize", "display", d.ok) EXCEPT
        !.display = d.st]

\* Engine_initialize from the input on, once the display is up; e4 is what
\* the steps up to Display_initialize leave.
initialize_rest(e4, e) ==
    LET e5 == Call(Attempt(Call(e4, "FS_load"), "Input_initialize", "input", e.input),
                   "FS_release")
        e6 == Attempt(e5, "Audio_initialize", "audio", e.audio)
        e7 == Attempt(e6, "Interpreter_initialize", "interpreter", e.interpreter)
    IN
    IF ~e.input
    THEN [en |-> Release(terminate_display(e5), "FS_terminate", "file_system"),
          ok |-> FALSE]
    ELSE IF ~e.audio
    THEN [en |-> Release(terminate_display(Release(e6, "Input_terminate", "input")),
                         "FS_terminate", "file_system"),
          ok |-> FALSE]
    ELSE IF ~e.interpreter
    THEN [en |-> Release(terminate_display(Release(Release(e7,
                             "Audio_terminate", "audio"),
                             "Input_terminate", "input")),
                         "FS_terminate", "file_system"),
          ok |-> FALSE]
    ELSE [en |-> e7, ok |-> TRUE]

\* Engine_initialize from Display_initialize on; e3 is what the steps before
\* it leave and d what Display_initialize leaves and returns.
initialize_from_display(e3, d, e) ==
    IF ~d.ok
    THEN [en |-> Release(initialize_display(e3, d), "FS_terminate", "file_system"),
          ok |-> FALSE]
    ELSE initialize_rest(initialize_display(e3, d), e)

\* Engine_initialize(engine, base_path); e is what the file system, the
\* input, the audio and the interpreter answer, e.icon tells whether an icon
\* is configured and loaded; configuration, monitor and a go to
\* Display_initialize.
Engine_initialize(configuration, monitor, a, e) ==
    LET e1 == Attempt(Call(EngineZero, "Log_initialize"),
                      "FS_initialize", "file_system", e.fs)
        e2 == Call(Call(e1, "_configure"), "Environment_initialize")
        e3 == Attempt(e2, "_load_icon", "icon", e.icon = "loaded")
    IN
    IF ~e.fs
    THEN [en |-> e1, ok |-> FALSE]
    ELSE initialize_from_display(e3, Display_initialize(configuration, monitor, a), e)

\* Engine_terminate(engine)
Engine_terminate(en) ==
    LET t1 == Release(en, "Interpreter_terminate", "interpreter")
        t2 == Release(t1, "Audio_terminate", "audio")
        t3 == terminate_display(t2)
        t4 == Release(t3, "Input_terminate", "input")
        t5 == Call(t4, "Environment_terminate")
        t6 == release_icon(t5)
    IN  Release(t6, "FS_terminate", "file_system")

\* The configurations, the monitors and the answers of the environment.
Configurations ==
    [width : 1..MaxCanvas, height : 1..MaxCanvas, scale : 0..MaxScale,
     fullscreen : BOOLEAN]

Monitors == [display_width : 1..MaxMonitor, display_height : 1..MaxMonitor]

\* What the display is answered: all goes well, or one step fails; after a
\* failed allocation of the buffer the code goes on, and a later step may
\* fail as well.
DisplayAnswers ==
    LET ok == AllOk(1)
        one == {[ok EXCEPT !.glfw = FALSE], [ok EXCEPT !.window = FALSE],
                [ok EXCEPT !.glad = FALSE], [ok EXCEPT !.gl = FALSE],
                [ok EXCEPT !.texture = FALSE], [ok EXCEPT !.id = 0]}
               \cup {[ok EXCEPT !.vertex = o] : o \in AttachOutcomes \ {"ok"}}
               \cup {[ok EXCEPT !.fragment = o] : o \in AttachOutcomes \ {"ok"}}
    IN  {AllOk(id) : id \in ProgramIds} \cup one
        \cup {[x EXCEPT !.vram = FALSE] :
                x \in {ok, [ok EXCEPT !.texture = FALSE], [ok EXCEPT !.id = 0],
                       [ok EXCEPT !.fragment = "compile_error"]}}

\* What the engine is answered: all goes well, or one sub-system fails.
EngineAnswers ==
    LET ok == [fs |-> TRUE, icon |-> "none", input |-> TRUE, audio |-> TRUE,
               interpreter |-> TRUE]
    IN  {[ok EXCEPT !.fs = FALSE]}
        \cup {[x EXCEPT !.icon = i] :
                x \in {ok, [ok EXCEPT !.input = FALSE], [ok EXCEPT !.audio = FALSE],
                       [ok EXCEPT !.interpreter = FALSE]},
                i \in {"none", "loaded"}}

\* The sub-systems are asked after the display only when the display is up,
\* and the display only when the file system is.
Answers ==
    {p \in EngineAnswers \X DisplayAnswers :
        /\ ~p[1].fs => p[2] = AllOk(1)
        /\ (p[2] # AllOk(p[2].id)) =>
              (p[1].input /\ p[1].audio /\ p[1].interpreter)}

\* Before Engine_initialize.
SystemInit ==
    /\ system = [phase |-> "off", engine |-> EngineZero]
    /\ system_op = [name |-> "none"]

SystemIdle == SystemInit

\* Engine_initialize(&engine, base_path), as main calls it
EngineInitialize ==
    /\ system.phase = "off"
    /\ \E configuration \in Configurations, monitor \in Monitors, p \in Answers :
        \E r \in {Engine_initialize(configuration, monitor, p[2], p[1])} :
        /\ system' = [phase |-> IF r.ok THEN "running" ELSE "failed",
                      engine |-> r.en]
        /\ system_op' = [name |-> "Engine_initialize",
                         configuration |-> configuration, monitor |-> monitor,
                         a |-> p[2], e |-> p[1], result |-> r.ok]
    /\ UNCHANGED not_system_vars

\* Display_present(&engine->display), once the engine is up: the canvas is
\* converted into the true-colour buffer and uploaded.  Writing past the end
\* of the buffer is undefined: it may go unnoticed, corrupt the heap or end
\* the program.
SystemPresent ==
    /\ system.phase = "running"
    /\ system_op.name \in {"Engine_initialize", "Display_present"}
    /\ \E outcome \in IF present_entries(system_op.configuration)
                            > system.engine.display.vram_entries
                      THEN {"unnoticed", "corrupted", "crashed"}
                      ELSE {"ok"} :
        system_op' = [system_op EXCEPT
                        !.name = "Display_present",
                        !.result = outcome # "crashed"]
    /\ system' = system
    /\ UNCHANGED not_system_vars

\* Engine_terminate(&engine)
EngineTerminate ==
    /\ system.phase = "running"
    /\ system' = [phase |-> "terminated", engine |-> Engine_terminate(system.engine)]
    /\ system_op' = [system_op EXCEPT !.name = "Engine_terminate"]
    /\ UNCHANGED not_system_vars

SystemNext ==
    \/ EngineInitialize
    \/ SystemPresent
    \/ EngineTerminate

(***************************************************************************)
(* A frame.  The program draws a pattern of palette indexes pixel by pixel *)
(* with GL_primitive_point (src/src/gl/primitive.c) and Display_present    *)
(* (src/src/core/io/display.c) converts the canvas into the display's      *)
(* true-colour buffer and uploads it.  GL_primitive_point looks the colour *)
(* up in the palette when it writes the pixel, so the canvas holds the     *)
(* colour of each pixel.  GL_surface_to_rgba is not among the sources; it  *)
(* is modelled as the specification describes it: one output entry per     *)
(* pixel, row by row, width * height entries.                              *)
(***************************************************************************)
Canvases == [width : 1..Width, height : 1..Height]

\* The tables a frame is drawn with: the identity or a rotation of the
\* palette; no transparent index or, as GL_context_initialize leaves it,
\* index 0.
FrameShiftings ==
    {[i \in Pixels |-> i], [i \in Pixels |-> (i + 1) % GL_MAX_PALETTE_COLORS]}

FrameTransparents == {[i \in Pixels |-> FALSE], [i \in Pixels |-> i = 0]}

\* The patterns of a canvas: pattern[y * width + x] is the index to draw at
\* (x, y).  One index all over, or the indexes in turn from any first one.
Patterns(canvas) ==
    {[o \in 0..(canvas.width * canvas.height - 1) |-> c] : c \in Pixels}
      \cup {[o \in 0..(canvas.width * canvas.height - 1) |->
                (o + k) % GL_MAX_PALETTE_COLORS] : k \in Pixels}

\* The position of the k-th pixel of a canvas, row by row.
PositionOf(canvas, k) == [x |-> k % canvas.width, y |-> k \div canvas.width]

\* GL_surface_to_rgba(&display->gl.buffer, &display->palette, display->vram):
\* entry k of the output is the colour of the k-th pixel, row by row.
GL_surface_to_rgba(context, v) ==
    [k \in 0..(context.width * context.height - 1) |->
        v[context.vram_rows[k \div context.width] + (k % context.width)]]

\* What Display_present may do on a canvas: the buffer holds
\* vram_size(canvas) entries, and filling or reading more is undefined.
PresentOutcomes(canvas) ==
    IF present_entries(canvas) > vram_size(canvas)
    THEN {"unnoticed", "corrupted", "crashed"}
    ELSE {"ok"}

\* Display_present(display): the entries glTexSubImage2D uploads.  Past the
\* end of the buffer the upload reads what the conversion wrote there, or
\* what another owner of that memory wrote since; or the program has ended
\* and nothing is uploaded.
Display_present(context, v, entries, outcome) ==
    IF outcome = "crashed" THEN <<>>
    ELSE [k \in 0..(context.width * context.height - 1) |->
            IF k >= entries /\ outcome = "corrupted" THEN Garbage
            ELSE GL_surface_to_rgba(context, v)[k]]

\* The context before GL_context_initialize: nothing of it is set.
GLZero ==
    [width |-> 0, height |-> 0, vram_rows |-> <<>>, vram_size |-> 0,
     background |-> 0, shifting |-> <<>>, transparent |-> <<>>, palette |-> <<>>]

\* Before GL_context_initialize: nothing is drawn.
FrameZero(canvas, pattern) ==
    [canvas |-> canvas, pattern |-> pattern, written |-> 0,
     phase |-> "off", outcome |-> "none", presented |-> <<>>]

\* A canvas and a pattern to draw on it.
FrameInit ==
    /\ gl = GLZero
    /\ vram = <<>>
    /\ gl_op = [name |-> "none"]
    /\ gl_prev = vram
    /\ \E canvas \in Canvases :
        \E pattern \in Patterns(canvas) : frame = FrameZero(canvas, pattern)

\* No frame is followed.
FrameIdle ==
    frame = [FrameZero([width |-> Width, height |-> Height], <<>>)
                EXCEPT !.phase = "idle"]

\* What the two calls of malloc in GL_context_initialize answer.
InitializeOutcomes == {"ok", "no_vram", "no_vram_rows"}

\* GL_context_initialize(gl, width, height) for the canvas: when an
\* allocation fails the context is left as it was; the pixels malloc()
\* returns are uninitialised.
FrameContextInitialize ==
    /\ frame.phase = "off"
    /\ \E outcome \in InitializeOutcomes :
        /\ gl' = IF outcome = "ok"
                 THEN GL_context_initialize(frame.canvas.width, frame.canvas.height)
                 ELSE gl
        /\ vram' = IF outcome = "ok"
                   THEN [o \in 0..(frame.canvas.width * frame.canvas.height - 1) |->
                            Garbage]
                   ELSE vram
        /\ frame' = [frame EXCEPT
                        !.phase = IF outcome = "ok" THEN "initialized" ELSE "failed"]
        /\ gl_op' = [name |-> "GL_context_initialize",
                     width |-> frame.canvas.width, height |-> frame.canvas.height,
                     result |-> outcome = "ok"]
    /\ gl_prev' = vram
    /\ UNCHANGED not_frame_vars

\* The program sets the tables it draws the frame with; both can be changed
\* while the program runs.
FrameTables ==
    /\ frame.phase = "initialized"
    /\ \E s \in FrameShiftings, t \in FrameTransparents :
        gl' = [gl EXCEPT !.shifting = s, !.transparent = t]
    /\ frame' = [frame EXCEPT !.phase = "drawing"]
    /\ UNCHANGED <<vram, gl_op, gl_prev, not_frame_vars>>

\* GL_primitive_point(gl, position, color) for the next pixel of the pattern
FramePoint ==
    /\ frame.phase = "drawing"
    /\ frame.written < frame.canvas.width * frame.canvas.height
    /\ vram' = GL_primitive_point(vram, PositionOf(frame.canvas, frame.written),
                                  frame.pattern[frame.written])
    /\ gl_op' = [name |-> "GL_primitive_point",
                 position |-> PositionOf(frame.canvas, frame.written),
                 color |-> frame.pattern[frame.written]]
    /\ gl_prev' = vram
    /\ frame' = [frame EXCEPT !.written = @ + 1]
    /\ UNCHANGED <<gl, not_frame_vars>>

\* Display_present(display)
FramePresent ==
    /\ frame.phase = "drawing"
    /\ \E outcome \in PresentOutcomes(frame.canvas) :
        frame' = [frame EXCEPT
                    !.phase = "presented",
                    !.outcome = outcome,
                    !.presented = Display_present(gl, vram, vram_size(frame.canvas),
                                                  outcome)]
    /\ UNCHANGED <<gl_vars, not_frame_vars>>

FrameNext ==
    \/ FrameContextInitialize
    \/ FrameTables
    \/ FramePoint
    \/ FramePresent

(***************************************************************************)
(* The buttons: Input_Button_State_t and Input_t of                        *)
(* src/src/core/io/input.h.  Input_process is declared there; its body is  *)
(* not among the sources and is modelled as the specification describes    *)
(* the polling of the buttons.                                             *)
(***************************************************************************)
Buttons == 1..MaxButtons

\* An Input_Button_State_t with no bit set.
ButtonZero ==
    [down |-> FALSE, pressed |-> FALSE, released |-> FALSE, triggered |-> FALSE]

\* *input = (Input_t){ 0 }: no button is down.  held is what the devices
\* report now, polled what they reported to the last Input_process, before
\* what they reported to the one before it.
InputZero ==
    [held   |-> [b \in Buttons |-> FALSE],
     polled |-> [b \in Buttons |-> FALSE],
     before |-> [b \in Buttons |-> FALSE],
     state  |-> [b \in Buttons |-> ButtonZero],
     frames |-> 0]

InputInit == input = InputZero

InputIdle == InputInit

\* (mutant) pressed and released follow the level, not the edge
process_button_level(state, is_down) ==
    [state EXCEPT !.down = is_down, !.pressed = is_down, !.released = ~is_down]

\* One button of Input_process: the state of the button after the device
\* reported is_down.
process_button(state, is_down) ==
    [state EXCEPT
        !.down = is_down,
        !.pressed = ~state.down /\ is_down,
        !.released = state.down /\ ~is_down]

\* The user presses or lets go of a button.
ButtonChange ==
    /\ \E b \in Buttons : input' = [input EXCEPT !.held[b] = ~@]
    /\ UNCHANGED not_input_vars

\* Input_process(input): every button is polled; frames tells whether a
\* poll has been made.
Input_process(in) ==
    [in EXCEPT
        !.state = [b \in Buttons |-> process_button(@[b], in.held[b])],
        !.before = in.polled,
        !.polled = in.held,
        !.frames = 1]

\* Input_process(&engine->input), once in every iteration of Engine_run
InputPoll ==
    /\ input' = Input_process(input)
    /\ UNCHANGED not_input_vars

InputNext ==
    \/ ButtonChange
    \/ InputPoll

EngineNext ==
    \/ LoopTest
    \/ Clock
    \/ InputProcess
    \/ InterpreterProcess
    \/ Accumulate
    \/ DrainStep
    \/ DrainExit
    \/ AudioUpdate
    \/ InputUpdate
    \/ DisplayUpdate
    \/ InterpreterRender
    \/ DisplayPresent
    \/ Pace

\* _calculate_fps not followed on its own.
FpsIdle == fps_calls = 0

\* One call of _calculate_fps on the statics as the calls before left them.
CalculateFps ==
    /\ fps_calls < MaxCalls
    /\ \E e \in 0..MaxElapsed :
        \E r \in {_calculate_fps(e)} :
            /\ elapsed' = e
            /\ samples' = r.samples
            /\ index' = r.index
            /\ sum' = r.sum
            /\ env_fps' = r.result
    /\ fps_calls' = fps_calls + 1
    /\ UNCHANGED <<pc, platform, delta_time, skippable_frames, reference_time, running,
                   quit, should_close, lag, frames, env_time, display_time,
                   render_factor, waited, calls, total, updates, drains, lag_in,
                   exhausted, failed, streak>>
    /\ UNCHANGED not_fps_vars

FpsNext == CalculateFps

\* Engine_run before its first iteration, with one configuration.
EngineIdle ==
    /\ EngineInit
    /\ platform = "PLATFORM_LINUX"
    /\ reference_time = 1
    /\ delta_time = 1
    /\ skippable_frames = 0

\* Engine_run as built for Linux, with a frame cap of one microsecond.
EngineLinux ==
    /\ EngineInit
    /\ platform = "PLATFORM_LINUX"
    /\ reference_time = 1

\* Engine_run as built for each platform, with every frame cap and one
\* fixed step.
EnginePlatforms ==
    /\ EngineInit
    /\ delta_time = 1
    /\ skippable_frames = 1

\* Engine_run.
Init == EngineLinux /\ GLIdle /\ DisplayIdle /\ SystemIdle /\ FrameIdle /\ InputIdle /\ FpsIdle

Spec == Init /\ [][EngineNext]_vars

\* The drawing calls on the context.
InitGL == EngineIdle /\ GLInit /\ DisplayIdle /\ SystemIdle /\ FrameIdle /\ InputIdle /\ FpsIdle

SpecGL == InitGL /\ [][GLNext]_vars

\* The calls on the display.
InitDisplay == EngineIdle /\ GLIdle /\ DisplayInit /\ SystemIdle /\ FrameIdle /\ InputIdle /\ FpsIdle

SpecDisplay == InitDisplay /\ [][DisplayNext]_vars

\* Start-up and shutdown.
InitSystem == EngineIdle /\ GLIdle /\ DisplayIdle /\ SystemInit /\ FrameIdle /\ InputIdle /\ FpsIdle

SpecSystem == InitSystem /\ [][SystemNext]_vars

\* Engine_run on every platform.
InitPlatforms == EnginePlatforms /\ GLIdle /\ DisplayIdle /\ SystemIdle /\ FrameIdle /\ InputIdle /\ FpsIdle

SpecPlatforms == InitPlatforms /\ [][EngineNext]_vars

\* The polling of the buttons.
InitInput == EngineIdle /\ GLIdle /\ DisplayIdle /\ SystemIdle /\ FrameIdle /\ InputInit /\ FpsIdle

SpecInput == InitInput /\ [][InputNext]_vars

\* A frame drawn pixel by pixel and presented.
InitFrame == EngineIdle /\ FrameInit /\ DisplayIdle /\ SystemIdle /\ InputIdle /\ FpsIdle

SpecFrame == InitFrame /\ [][FrameNext]_vars

\* _calculate_fps called any number of times, from its zeroed statics.
InitFps == EngineIdle /\ GLIdle /\ DisplayIdle /\ SystemIdle /\ FrameIdle /\ InputIdle /\ FpsIdle

SpecFps == InitFps /\ [][FpsNext]_vars

\* The loop is one thread that always takes its next step: every call returns.
FairSpec == Spec /\ WF_vars(EngineNext)

(***************************************************************************)
(* Properties of Engine_run.                                               *)
(***************************************************************************)
\* How many times `name` was called in the current iteration.
CallCount(name) == Cardinality({i \in 1..Len(calls) : calls[i] = name})

\* A stop condition has been raised.
StopRaised == ~running \/ quit \/ should_close

\* Between two iterations (or after the last one).
BetweenIterations == pc \in {"test", "done"}

\* The drain loop of the current iteration has ended.
AfterDrain == pc \in {"audio", "input_update", "display_update", "render",
                      "present", "pace", "test", "done"}

\* C2: while the skip budget has never been exhausted and no interpreter call
\* has failed, at the end of every iteration the number of Interpreter_update
\* invocations is floor(T/d), and the lag is T - floor(T/d)*d, so 0 <= lag < d
\* (T the elapsed times summed, d the fixed delta).
C2_FixedStepAccumulator ==
    (BetweenIterations /\ ~exhausted /\ ~failed) =>
        /\ updates = total \div delta_time
        /\ lag = total - (total \div delta_time) * delta_time
        /\ 0 <= lag
        /\ lag < delta_time

\* Several iterations have elapsed, a fixed update was made and a part of a
\* step is left over.
C2_Witness ==
    /\ pc = "test"
    /\ ~exhausted /\ ~failed
    /\ updates >= 1
    /\ lag > 0
    /\ elapsed > 0
    /\ total > elapsed

\* C3 as stated: in an iteration in which floor((lag + elapsed)/d) exceeds the
\* skip budget k, exactly k fixed updates are invoked and the lag afterwards is
\* lag + elapsed - k*d; and the elapsed times sum to (drain steps)*d + lag.
C3_Original ==
    /\ (AfterDrain /\ lag_in \div delta_time > skippable_frames) =>
          /\ CallCount("Interpreter_update") = skippable_frames
          /\ lag = lag_in - skippable_frames * delta_time
    /\ AfterDrain => total = drains * delta_time + lag

\* C3 as amended: in such an iteration the drain loop makes exactly k passes,
\* Interpreter_update is invoked at most k times, and exactly k times when no
\* interpreter call has failed; the lag afterwards is lag + elapsed - k*d; and
\* the elapsed times sum to (drain steps)*d + lag.
C3_SkipBudgetClamp ==
    /\ (AfterDrain /\ lag_in \div delta_time > skippable_frames) =>
          /\ skippable_frames - frames = skippable_frames
          /\ CallCount("Interpreter_update") <= skippable_frames
          /\ ~failed => CallCount("Interpreter_update") = skippable_frames
          /\ lag = lag_in - skippable_frames * delta_time
          /\ lag >= delta_time
    /\ AfterDrain => total = drains * delta_time + lag

C3_Witness ==
    /\ pc = "audio"
    /\ lag_in \div delta_time > skippable_frames
    /\ skippable_frames >= 1
    /\ ~failed
    /\ CallCount("Interpreter_update") = skippable_frames
    /\ lag > delta_time

\* A step that invokes an interpreter entry point.
InterpreterInvoked ==
    /\ Len(calls') = Len(calls) + 1
    /\ calls'[Len(calls')] \in InterpreterNames

\* C4: once an interpreter call has returned false no interpreter entry point
\* is invoked any more, and the iteration in which it failed still makes each
\* of Audio_update, Input_update, Display_update, Display_present and the
\* pacing step exactly once.
C4_LazyShortCircuit ==
    /\ [][failed => ~InterpreterInvoked]_vars
    /\ []((failed /\ BetweenIterations) =>
            \A name \in {"Audio_update", "Input_update", "Display_update",
                         "Display_present", "pace"} : CallCount(name) = 1)

C4_Witness ==
    /\ pc = "done"
    /\ failed
    /\ CallCount("Interpreter_update") >= 1
    /\ CallCount("Interpreter_render") = 0
    /\ CallCount("Display_present") = 1
    /\ CallCount("pace") = 1

\* C5: the loop is left only from its test; a stop condition raised during an
\* iteration lets that iteration run to its end (present and pacing included);
\* no iteration starts once a stop condition is raised; and Engine_run then
\* returns.
C5_ExitOnlyAtTop ==
    /\ [][pc' = "done" => pc = "test"]_vars
    /\ [][(StopRaised /\ pc \notin {"test", "done"}) =>
             (pc' = After(pc) \/ (pc = "drain" /\ pc' = "drain"))]_vars
    /\ [][StopRaised => pc' # "clock"]_vars
    /\ [](pc = "done" =>
            /\ StopRaised
            /\ calls # <<>> =>
                 /\ calls[Len(calls)] = "pace"
                 /\ CallCount("Display_present") = 1)
    /\ (StopRaised ~> pc = "done")

C5_Witness ==
    /\ pc = "done"
    /\ quit /\ running /\ ~should_close
    /\ CallCount("Interpreter_render") = 1
    /\ calls[Len(calls)] = "pace"

\* The place of each call in the loop's body.
Rank(name) ==
    CASE name = "Input_process"       -> 1
      [] name = "Interpreter_process" -> 2
      [] name = "Interpreter_update"  -> 3
      [] name = "Audio_update"        -> 4
      [] name = "Input_update"        -> 5
      [] name = "Display_update"      -> 6
      [] name = "Interpreter_render"  -> 7
      [] name = "Display_present"     -> 8
      [] name = "pace"                -> 9

\* C6: the calls of an iteration are made in the order Input_process,
\* Interpreter_process, Interpreter_update (zero or more), Audio_update,
\* Input_update, Display_update, Interpreter_render, Display_present, pacing;
\* only Interpreter_update repeats; an iteration starts with Input_process and
\* ends with Display_present and the pacing step.
C6_StepOrder ==
    /\ \A i, j \in 1..Len(calls) :
          i < j => \/ Rank(calls[i]) < Rank(calls[j])
                   \/ calls[i] = "Interpreter_update" /\ calls[j] = "Interpreter_update"
    /\ calls # <<>> => calls[1] = "Input_process"
    /\ (BetweenIterations /\ calls # <<>>) =>
          /\ calls[Len(calls)] = "pace"
          /\ calls[Len(calls) - 1] = "Display_present"
          /\ CallCount("Interpreter_process") = 1
          /\ \A name \in {"Audio_update", "Input_update", "Display_update"} :
                CallCount(name) = 1
          /\ running => CallCount("Interpreter_render") = 1

C6_Witness ==
    /\ pc = "test"
    /\ running
    /\ Len(calls) = 10
    /\ CallCount("Interpreter_update") = 2

\* C7 as stated: the interpolation factor handed to Interpreter_render lies in
\* 0..1, whatever the elapsed times and the skip budget.
C7_FactorInUnitRange ==
    render_factor # <<0, 0>> =>
        /\ 0 <= render_factor[1]
        /\ render_factor[1] <= render_factor[2]

\* C8: once _calculate_fps has been fed the same elapsed value e for at least
\* FPS_AVERAGE_SAMPLES consecutive calls, the frame rate it returns is 1/e.
C8_ConstantElapsedFps ==
    streak[2] >= FPS_AVERAGE_SAMPLES => env_fps = Fraction(1, streak[1])

C8_Witness ==
    /\ streak[2] >= FPS_AVERAGE_SAMPLES
    /\ streak[1] > 0
    /\ total > FPS_AVERAGE_SAMPLES * streak[1]
    /\ env_fps = <<1, streak[1]>>

(***************************************************************************)
(* Properties of the drawing context.                                      *)
(***************************************************************************)
\* The pixel at offset dst is what writing pixel value P there must leave:
\* the palette colour of the shifted index, or the colour it had before when
\* the shifted index is transparent.
ResolvedAt(dst, P) ==
    /\ ~gl.transparent[gl.shifting[P]] => vram[dst] = gl.palette[gl.shifting[P]]
    /\ gl.transparent[gl.shifting[P]] => vram[dst] = gl_prev[dst]

\* The source pixel and the destination offset of row i, column j of a blit.
BlitSource(op, i, j) ==
    op.surface.data[(op.tile.y + i) * op.surface.width + op.tile.x + j]

BlitDestination(op, i, j) ==
    (op.position.y + i) * gl.width + op.position.x + j

\* C1: a pixel value P written by GL_primitive_point, GL_primitive_hline,
\* GL_context_blit or GL_context_blit_fast leaves the palette colour C[S[P]]
\* at its destination when T[S[P]] is false, and leaves the destination as
\* it was when T[S[P]] is true: transparency is decided by the shifted index.
C1_ResolutionOrder ==
    /\ gl_op.name = "GL_primitive_point" =>
          ResolvedAt(gl_op.position.y * gl.width + gl_op.position.x, gl_op.color)
    /\ gl_op.name = "GL_primitive_hline" =>
          \A i \in 0..(gl_op.width - 1) :
              ResolvedAt(gl_op.origin.y * gl.width + gl_op.origin.x + i, gl_op.color)
    /\ gl_op.name \in {"GL_context_blit", "GL_context_blit_fast"} =>
          \A i \in 0..(gl_op.tile.height - 1), j \in 0..(gl_op.tile.width - 1) :
              ResolvedAt(BlitDestination(gl_op, i, j), BlitSource(gl_op, i, j))

\* A blit in which the shifting table decides both ways: one pixel value is
\* opaque as drawn and shifted onto a transparent index, another the reverse.
C1_Witness ==
    /\ gl_op.name = "GL_context_blit_fast"
    /\ \E i \in 0..(gl_op.tile.height - 1), j \in 0..(gl_op.tile.width - 1) :
          LET P == BlitSource(gl_op, i, j) IN
          /\ ~gl.transparent[P] /\ gl.transparent[gl.shifting[P]]
          /\ vram[BlitDestination(gl_op, i, j)] = gl_prev[BlitDestination(gl_op, i, j)]
    /\ \E i \in 0..(gl_op.tile.height - 1), j \in 0..(gl_op.tile.width - 1) :
          LET P == BlitSource(gl_op, i, j) IN
          /\ gl.transparent[P] /\ ~gl.transparent[gl.shifting[P]]
          /\ vram[BlitDestination(gl_op, i, j)] = gl.palette[gl.shifting[P]]
          /\ vram[BlitDestination(gl_op, i, j)] # gl_prev[BlitDestination(gl_op, i, j)]


(***************************************************************************)
(* Properties of Display_shader                                            *)
(***************************************************************************)
\* The last call was Display_shader with the source of an effect whose
\* fragment shader did not compile or did not link.
EffectFailedToLoad ==
    /\ display_op.name = "Display_shader"
    /\ display_op.effect # NULL
    /\ display_op.creates # <<>>
    /\ display_op.vertex = "ok"
    /\ display_op.fragment \in {"compile_error", "link_error"}

\* The program that was active before the last call.
PreviousProgram ==
    display_prev.display.programs[display_prev.display.active_program]

\* C9: after Display_shader with an effect that fails to compile or link,
\* the program that was active before the call (pass-through or custom) is
\* still the active program, unchanged and usable, and a warning was logged.
C9_FailedEffectKeepsPrevious ==
    EffectFailedToLoad =>
        /\ display.active_program = display_prev.display.active_program
        /\ display.programs[display.active_program] = PreviousProgram
        /\ Usable(driver.objects, display.programs[display.active_program].id)
        /\ "can't load custom shader" \in
               {display_op.log[i] : i \in DOMAIN display_op.log}

\* The last call was Display_shader(display, NULL), made while the
\* pass-through program was the active one.
NullWhilePassthru ==
    /\ display_op.name = "Display_shader"
    /\ display_op.effect = NULL
    /\ display_prev.display.active_program = DISPLAY_PROGRAM_PASSTHRU

\* C10: Display_shader(display, NULL) while the pass-through program is
\* active does nothing: no program is deleted or created, the active program
\* stays the pass-through one, and no uniform is sent.
C10_NullOnPassthruIsNoOp ==
    NullWhilePassthru =>
        /\ display_op.deletes = <<>>
        /\ display_op.creates = <<>>
        /\ display_op.sends = <<>>
        /\ display = display_prev.display
        /\ driver = display_prev.driver
        /\ display.active_program = DISPLAY_PROGRAM_PASSTHRU

\* Display_shader(display, NULL) was called on the pass-through program
\* that Display_initialize had made active and that is still usable.
C10_Witness ==
    /\ NullWhilePassthru
    /\ Usable(driver.objects, display.programs[DISPLAY_PROGRAM_PASSTHRU].id)
    /\ "pass-thru shader already active, bailing out" \in
           {display_op.log[i] : i \in DOMAIN display_op.log}

\* The last call was Display_shader(display, NULL).
NullCall ==
    /\ display_op.name = "Display_shader"
    /\ display_op.effect = NULL

\* The names the last call handed to glDeleteProgram, 0 left out.
DeletedAt == {i \in DOMAIN display_op.deletes : display_op.deletes[i] # 0}

\* C11: Display_shader(display, NULL), whatever was active before (nothing,
\* the pass-through program, a custom program), leaves the pass-through
\* program active, unchanged and usable; the pass-through program is not
\* deleted; and the only program deleted is the custom program that existed
\* before the call, deleted once.
C11_NullRestoresPassthru ==
    NullCall =>
        /\ display.active_program = DISPLAY_PROGRAM_PASSTHRU
        /\ display.programs[DISPLAY_PROGRAM_PASSTHRU] =
               display_prev.display.programs[DISPLAY_PROGRAM_PASSTHRU]
        /\ Usable(driver.objects, display.programs[DISPLAY_PROGRAM_PASSTHRU].id)
        /\ \A i \in DeletedAt :
              /\ display_op.deletes[i] # display.programs[DISPLAY_PROGRAM_PASSTHRU].id
              /\ display_op.deletes[i] =
                     display_prev.display.programs[DISPLAY_PROGRAM_CUSTOM].id
              /\ display_op.deletes[i] \in DOMAIN display_prev.driver.objects
        /\ Cardinality(DeletedAt) <= 1
        /\ display.programs[DISPLAY_PROGRAM_CUSTOM] = NoProgram

\* Display_shader(display, NULL) was called while a custom program was
\* active: that program was deleted, once, and the pass-through one is active.
C11_Witness ==
    /\ NullCall
    /\ display_prev.display.active_program = DISPLAY_PROGRAM_CUSTOM
    /\ display_prev.display.programs[DISPLAY_PROGRAM_CUSTOM].id # 0
    /\ display_op.deletes =
          <<display_prev.display.programs[DISPLAY_PROGRAM_CUSTOM].id, 0>>
    /\ display.active_program = DISPLAY_PROGRAM_PASSTHRU

(***************************************************************************)
(* Start-up and shutdown: what Engine_initialize left behind.              *)
(***************************************************************************)
\* The display as the last call left it, and what the call was given.
TheDisplay == system.engine.display

TheConfiguration == system_op.configuration

TheMonitor == system_op.monitor

\* The call was made by the display, and the message was logged by it.
DisplayCalled(name) == \E i \in DOMAIN TheDisplay.events : TheDisplay.events[i] = name

DisplayLogged(message) == \E i \in DOMAIN TheDisplay.log : TheDisplay.log[i] = message

\* compute_size was called and returned true.
SizeAccepted ==
    /\ system_op.name # "none"
    /\ DisplayCalled("compute_size")
    /\ ~DisplayLogged("requested display size can't fit display!")

\* A scale at which the canvas fits the work area of the monitor.
FitsAt(s) ==
    /\ TheConfiguration.width * s <= TheMonitor.display_width
    /\ TheConfiguration.height * s <= TheMonitor.display_height

\* C12: with the requested scale 0, compute_size chooses the smaller of
\* display_width div canvas_width and display_height div canvas_height, which
\* is the largest scale that fits (6 for a canvas of 320x180 on a display of
\* 1920x1080); and whenever compute_size accepts a configuration, the window
\* is the canvas times the scale and is not larger than the display.
C12_AutoScaleFits ==
    /\ SizeAccepted =>
          /\ TheDisplay.window_width = TheConfiguration.width * TheDisplay.window_scale
          /\ TheDisplay.window_height = TheConfiguration.height * TheDisplay.window_scale
          /\ TheDisplay.window_width <= TheMonitor.display_width
          /\ TheDisplay.window_height <= TheMonitor.display_height
          /\ TheConfiguration.scale = 0 =>
                /\ LET sw == TheMonitor.display_width \div TheConfiguration.width
                       sh == TheMonitor.display_height \div TheConfiguration.height
                   IN  TheDisplay.window_scale = IF sw <= sh THEN sw ELSE sh
                /\ FitsAt(TheDisplay.window_scale)
                /\ ~FitsAt(TheDisplay.window_scale + 1)
    /\ \E r \in {compute_size(DisplayZero,
                              [width |-> 320, height |-> 180, scale |-> 0,
                               fullscreen |-> FALSE],
                              [display_width |-> 1920, display_height |-> 1080])} :
          /\ r.ok
          /\ r.st.window_scale = 6
          /\ r.st.window_width = 1920
          /\ r.st.window_height = 1080

\* The scale is chosen by compute_size, it is larger than 1, and the height
\* of the display allows less than its width does.
C12_Witness ==
    /\ SizeAccepted
    /\ TheConfiguration.scale = 0
    /\ TheDisplay.window_scale >= 2
    /\ TheMonitor.display_width \div TheConfiguration.width
         > TheMonitor.display_height \div TheConfiguration.height

\* The largest scale at which the canvas fits the work area of the monitor.
LargestFit ==
    CHOOSE s \in 0..(TheMonitor.display_width + TheMonitor.display_height) :
        /\ s = 0 \/ FitsAt(s)
        /\ ~FitsAt(s + 1)

\* C13: a requested scale s > 0 is used as it is when it is not larger than
\* the largest scale that fits, and is replaced by that scale, with a warning,
\* when it is larger; whenever compute_size returns true the scale of the
\* window lies between 1 and the largest scale that fits.
C13_RequestedScaleClamped ==
    SizeAccepted =>
        /\ TheDisplay.window_scale \in 1..LargestFit
        /\ (TheConfiguration.scale > 0 /\ TheConfiguration.scale <= LargestFit) =>
              /\ TheDisplay.window_scale = TheConfiguration.scale
              /\ ~DisplayLogged("requested scaling too big, forcing")
        /\ TheConfiguration.scale > LargestFit =>
              /\ TheDisplay.window_scale = LargestFit
              /\ DisplayLogged("requested scaling too big, forcing")

\* A scale larger than the largest that fits was requested and accepted.
C13_Witness ==
    /\ SizeAccepted
    /\ TheConfiguration.scale > LargestFit
    /\ TheDisplay.window_scale = LargestFit
    /\ LargestFit >= 1

\* Display_initialize came to compute_size with a canvas that does not fit
\* the work area of the monitor at scale 1.
CanvasDoesNotFit ==
    /\ system_op.name # "none"
    /\ DisplayCalled("compute_size")
    /\ ~FitsAt(1)

\* The failure to fit was reported: compute_size logged it and returned false,
\* Display_initialize returned false and so did Engine_initialize.
FitFailureReported ==
    /\ DisplayLogged("requested display size can't fit display!")
    /\ "display" \notin system.engine.held
    /\ system.phase = "failed"
    /\ ~system_op.result

\* C14, as stated: when the canvas does not fit the display at scale 1 the
\* failure is reported and no window is created.
C14_Original ==
    CanvasDoesNotFit =>
        /\ FitFailureReported
        /\ ~DisplayCalled("glfwCreateWindow")

\* C14, amended: when the canvas does not fit the display at scale 1 the
\* failure is reported, no window is shown, and the hidden window created
\* before the size was computed is destroyed: no window is left.
C14_FitFailureLeavesNoWindow ==
    CanvasDoesNotFit =>
        /\ FitFailureReported
        /\ ~DisplayCalled("glfwShowWindow")
        /\ ~DisplayCalled("glfwSetWindowMonitor")
        /\ DisplayCalled("glfwDestroyWindow")
        /\ "window" \notin TheDisplay.held

\* The canvas is larger than the display in both dimensions.
C14_Witness ==
    /\ CanvasDoesNotFit
    /\ TheConfiguration.width > TheMonitor.display_width
    /\ TheConfiguration.height > TheMonitor.display_height
    /\ system.phase = "failed"

\* The sub-systems of the engine, in the order Engine_initialize acquires them.
Subsystems == <<"file_system", "display", "input", "audio", "interpreter">>

\* The first k sub-systems, last first.
ReversePrefix(k) == [i \in 1..k |-> Subsystems[k + 1 - i]]

\* The sub-systems among the resources of seq, in the order of seq.
SubsystemsOf(seq) ==
    SelectSeq(seq, LAMBDA r : \E i \in DOMAIN Subsystems : Subsystems[i] = r)

\* Engine_initialize has returned, and nothing was called since.
Initialized == system_op.name = "Engine_initialize"

\* C15: Engine_initialize returns true only if the file system, the display,
\* the input, the audio and the interpreter were all initialized; when it
\* returns false the sub-systems initialized before the failing one have been
\* terminated, last first, and no resource that was acquired, the chunk of the
\* icon included, is left unreleased.
C15_FailedInitializeUnwinds ==
    Initialized =>
        /\ system_op.result =>
              \A i \in DOMAIN Subsystems : Subsystems[i] \in system.engine.held
        /\ ~system_op.result =>
              /\ \E k \in 0..Len(Subsystems) :
                    SubsystemsOf(system.engine.released) = ReversePrefix(k)
              /\ system.engine.stale = {}
              /\ system.engine.held = {}

\* Engine_terminate has returned.
Terminated == system.phase = "terminated"

\* What Engine_terminate released: what the record of the engine lists as
\* released, which is empty until Engine_terminate is called on an engine
\* that came up.
ShutdownOrder == SubsystemsOf(system.engine.released)

\* C16: Engine_terminate shuts the sub-systems down in the reverse of the
\* order in which Engine_initialize acquired them: the interpreter, the
\* audio, the input, the display, the file system.
C16_ShutdownInReverseOrder ==
    Terminated => ShutdownOrder = ReversePrefix(Len(Subsystems))

\* Display_initialize was called and returned false.
DisplayFailed ==
    /\ system_op.name # "none"
    /\ DisplayCalled("glfwInit")
    /\ ~DisplayCalled("return")

\* C17: on every failure branch of Display_initialize all that was acquired
\* on the way (GLFW, the window, the graphics context, the true-colour
\* buffer, the texture, the programs) has been released when it returns.
C17_FailedDisplayHoldsNothing ==
    DisplayFailed =>
        /\ TheDisplay.held = {}
        /\ DOMAIN TheDisplay.objects = {}

\* malloc answered NULL for the true-colour buffer.
VramAllocationFailed ==
    /\ system_op.name # "none"
    /\ DisplayLogged("can't allocate VRAM buffer")

\* C18: when the true-colour buffer cannot be allocated Display_initialize
\* returns false and takes no further step: no texture is generated and no
\* program is set up after the failure.
C18_VramFailureAborts ==
    VramAllocationFailed =>
        /\ DisplayFailed
        /\ ~DisplayCalled("glGenTextures")
        /\ ~DisplayCalled("glTexImage2D")
        /\ ~DisplayCalled("program_create")
        /\ ~DisplayCalled("Display_shader")

\* The display came up with all its resources and was then terminated.
DisplayTerminated ==
    /\ Terminated
    /\ ~VramAllocationFailed

\* The number of calls of program_delete made by the display.
ProgramDeletes ==
    Cardinality({i \in DOMAIN TheDisplay.events : TheDisplay.events[i] = "program_delete"})

\* C19: Display_terminate releases the resources of the display in the
\* reverse of the order in which Display_initialize acquired them: the
\* programs, the texture, the true-colour buffer, the graphics context, the
\* window, GLFW; and it deletes only the slots that hold a program.
C19_TerminateInReverseOrder ==
    DisplayTerminated =>
        /\ TheDisplay.released = <<"program", "texture", "vram", "gl", "window", "glfw">>
        /\ TheDisplay.held = {}
        /\ ProgramDeletes = 1

\* Display_present was called on a display that came up with its buffer.
Presented ==
    /\ system_op.name = "Display_present"
    /\ ~VramAllocationFailed

\* The number of allocations of the true-colour buffer made by the display.
Allocations ==
    Cardinality({i \in DOMAIN TheDisplay.events : TheDisplay.events[i] = "malloc"})

\* C20: the true-colour buffer Display_present fills and uploads holds
\* exactly width * height colours, whatever the width and the height of the
\* canvas; it is allocated once, by Display_initialize, and Display_present
\* allocates nothing.
C20_BufferHoldsCanvas ==
    Presented =>
        /\ TheDisplay.vram_entries = TheConfiguration.width * TheConfiguration.height
        /\ TheDisplay.vram_entries = present_entries(TheConfiguration)
        /\ Allocations = 1

(***************************************************************************)
(* Properties of a frame drawn and presented.                              *)
(***************************************************************************)
\* The frame is drawn in full with the identity shifting table and no
\* transparent index, and presented.
RoundTripDone ==
    /\ frame.phase = "presented"
    /\ frame.written = frame.canvas.width * frame.canvas.height
    /\ gl.shifting = [i \in Pixels |-> i]
    /\ gl.transparent = [i \in Pixels |-> FALSE]

\* C21: with the identity shifting table and no transparent index, a pattern
\* of indexes written pixel by pixel and then presented yields, at each
\* (x, y) in row-major order, exactly the palette colour of the index written
\* there.
C21_RoundTrip ==
    RoundTripDone =>
        /\ DOMAIN frame.presented = 0..(frame.canvas.width * frame.canvas.height - 1)
        /\ \A x \in 0..(frame.canvas.width - 1), y \in 0..(frame.canvas.height - 1) :
              frame.presented[y * frame.canvas.width + x]
                  = gl.palette[frame.pattern[y * frame.canvas.width + x]]

(***************************************************************************)
(* Properties of the primitives.                                           *)
(***************************************************************************)
\* The offset of the pixel (x, y) in the pixels of the context.
OffsetOf(x, y) == gl.vram_rows[y] + x

\* The colour a primitive draws with: the palette's colour of the shifted
\* index.
ResolvedColor(color) == gl.palette[gl.shifting[color]]

\* The primitive drew with a colour whose shifted index is not transparent.
DrawsOpaque(name) ==
    /\ gl_op.name = name
    /\ ~gl.transparent[gl.shifting[gl_op.color]]

\* The pixels are those before the call, but the pixels of the columns
\* x0..x1-1 of the rows y0..y1-1, which hold rgba.
ExactlySet(x0, y0, x1, y1, rgba) ==
    \A x \in 0..(gl.width - 1), y \in 0..(gl.height - 1) :
        vram[OffsetOf(x, y)] =
            IF x0 <= x /\ x < x1 /\ y0 <= y /\ y < y1 THEN rgba
            ELSE gl_prev[OffsetOf(x, y)]

\* C22: GL_primitive_vline with a resolved colour that is not transparent
\* sets exactly the `height` pixels of column origin.x in the rows origin.y
\* to origin.y + height - 1, and leaves every other pixel unchanged.
C22_VLineSetsColumn ==
    DrawsOpaque("GL_primitive_vline") =>
        ExactlySet(gl_op.origin.x, gl_op.origin.y,
                   gl_op.origin.x + 1, gl_op.origin.y + gl_op.height,
                   ResolvedColor(gl_op.color))

\* C23: GL_primitive_hline with a resolved colour that is not transparent
\* sets exactly the `width` pixels of row origin.y in the columns origin.x
\* to origin.x + width - 1 to the resolved colour, and GL_primitive_point
\* sets exactly the one pixel at (position.x, position.y); every other pixel
\* is left unchanged.
C23_HLineAndPointSetExactly ==
    /\ DrawsOpaque("GL_primitive_hline") =>
          ExactlySet(gl_op.origin.x, gl_op.origin.y,
                     gl_op.origin.x + gl_op.width, gl_op.origin.y + 1,
                     ResolvedColor(gl_op.color))
    /\ DrawsOpaque("GL_primitive_point") =>
          ExactlySet(gl_op.position.x, gl_op.position.y,
                     gl_op.position.x + 1, gl_op.position.y + 1,
                     ResolvedColor(gl_op.color))

\* A run of a whole row, in a colour that none of the pixels had: the row is
\* changed, the other rows are not.
C23_Witness ==
    /\ DrawsOpaque("GL_primitive_hline")
    /\ gl_op.width = gl.width
    /\ gl_op.width >= 2
    /\ \A o \in DOMAIN gl_prev : gl_prev[o] # ResolvedColor(gl_op.color)
    /\ \E o \in DOMAIN vram : vram[o] = gl_prev[o]
    /\ \E o \in DOMAIN vram : vram[o] # gl_prev[o]

\* GL_context_initialize has just returned true for the canvas.
ContextInitialized ==
    /\ frame.phase = "initialized"
    /\ gl_op.name = "GL_context_initialize"
    /\ gl_op.result

\* C24: after a successful GL_context_initialize(width, height) the shifting
\* table is the identity on all palette indexes, index 0 is transparent and
\* no other index is, the background index is 0, the pixels are exactly
\* width * height entries, and the row table has exactly `height` entries,
\* row i starting at offset width * i of the pixels.
C24_InitializedContext ==
    ContextInitialized =>
        /\ DOMAIN gl.shifting = Pixels
        /\ \A i \in Pixels : gl.shifting[i] = i
        /\ DOMAIN gl.transparent = Pixels
        /\ \A i \in Pixels : gl.transparent[i] <=> (i = 0)
        /\ gl.background = 0
        /\ DOMAIN vram = 0..(gl_op.width * gl_op.height - 1)
        /\ gl.vram_size = gl_op.width * gl_op.height
        /\ DOMAIN gl.vram_rows = 0..(gl_op.height - 1)
        /\ \A i \in 0..(gl_op.height - 1) : gl.vram_rows[i] = gl_op.width * i

\* A context of several rows whose width differs from its height.
C24_Witness ==
    /\ ContextInitialized
    /\ gl_op.height >= 2
    /\ gl_op.width # gl_op.height
    /\ gl.vram_rows[1] = gl_op.width

(***************************************************************************)
(* Properties of the pacing of Engine_run.                                 *)
(***************************************************************************)
\* The pacing step of the current iteration is done.
Paced == pc = "test" /\ calls # <<>> /\ calls[Len(calls)] = "pace"

\* The pause asked for, and the time left over, in nanoseconds.
PauseNanos == waited.pause.seconds * 1000000000 + waited.pause.nanoseconds

LeftoverNanos == (waited.leftover * 1000) \div SubMicro

\* The resolution of the platform's pause, in nanoseconds: _wait_for
\* truncates the time to whole milliseconds on Windows and to whole
\* microseconds elsewhere.
ResolutionNanos == IF platform = "PLATFORM_WINDOWS" THEN 1000000 ELSE 1000

\* C25: at the end of each iteration of Engine_run the loop waits if and
\* only if a positive time is left (reference_time - frame_time > 0), and
\* then for what is left; a wait whose duration truncates to zero yields the
\* processor instead of sleeping; when the frame took the reference time or
\* more, nothing is called.
C25_PacingWaitsForLeftover ==
    Paced =>
        /\ (waited.leftover > 0) <=> (waited.pause.call # "none")
        /\ (waited.leftover > 0 /\ LeftoverNanos \div ResolutionNanos = 0) =>
              waited.pause.call \in {"sched_yield", "YieldProcessor"}
        /\ (waited.leftover > 0 /\ LeftoverNanos \div ResolutionNanos > 0) =>
              /\ waited.pause.call \in {"usleep", "Sleep", "nanosleep"}
              /\ PauseNanos = (LeftoverNanos \div ResolutionNanos) * ResolutionNanos

(***************************************************************************)
(* Properties of the buttons.                                              *)
(***************************************************************************)
\* Input_process has run.
Polled == input.frames > 0

\* C26: after every Input_process a button is "pressed" only in the frame
\* where it went from up to down, "released" only in the frame where it went
\* from down to up, and "down" exactly while it is held; pressed implies
\* down, released implies not down, and a button is never pressed and
\* released in the same frame.
C26_ButtonEdges ==
    Polled =>
        \A b \in Buttons :
            /\ input.state[b].down <=> input.polled[b]
            /\ input.state[b].pressed <=> (~input.before[b] /\ input.polled[b])
            /\ input.state[b].released <=> (input.before[b] /\ ~input.polled[b])
            /\ input.state[b].pressed => input.state[b].down
            /\ input.state[b].released => ~input.state[b].down
            /\ ~(input.state[b].pressed /\ input.state[b].released)

\* In one frame one button is pressed, another released, and a third held
\* down since the frame before.
C26_Witness ==
    /\ Polled
    /\ \E b \in Buttons : input.state[b].pressed
    /\ \E b \in Buttons : input.state[b].released
    /\ \E b \in Buttons :
          input.state[b].down /\ ~input.state[b].pressed /\ input.before[b]

(***************************************************************************)
(* Properties of the simulation clock.                                     *)
(***************************************************************************)
\* C27 as stated: at the end of every iteration the simulation clock equals
\* the fixed delta times the number of Interpreter_update invocations made so
\* far, also in an iteration where an interpreter call has already failed.
C27_Original == BetweenIterations => env_time = delta_time * updates

\* C27 as amended: at the end of every iteration the simulation clock equals
\* the fixed delta times the number of passes of the drain loop made so far;
\* every pass advances the clock and reduces the lag, and invokes
\* Interpreter_update only while `running` is true, so the clock equals the
\* fixed delta times the number of invocations as long as no interpreter
\* call has failed, and runs ahead of it afterwards.
C27_ClockCountsDrainPasses ==
    BetweenIterations =>
        /\ env_time = delta_time * drains
        /\ updates <= drains
        /\ ~failed => env_time = delta_time * updates
        /\ total = drains * delta_time + lag

\* An iteration in which Interpreter_process failed and the drain loop made
\* its passes all the same: the clock has advanced, no update was invoked.
C27_Witness ==
    /\ BetweenIterations
    /\ failed
    /\ CallCount("Interpreter_update") = 0
    /\ drains >= 2
    /\ updates < drains
    /\ env_time = delta_time * drains

(***************************************************************************)
(* Properties of the geometry of the display.                              *)
(***************************************************************************)
\* The quad <<x0, y0, x1, y1>> lies inside an area of width x height.
QuadInside(quad, width, height) ==
    /\ 0 <= quad[1] /\ quad[1] <= quad[3] /\ quad[3] <= width
    /\ 0 <= quad[2] /\ quad[2] <= quad[4] /\ quad[4] <= height

\* C28: when compute_size accepts a configuration, the destination quad is
\* exactly window_width x window_height (the canvas times the scale) and
\* lies inside the physical area.  Windowed, the quad is
\* (0, 0, window_width, window_height), the physical size is the window's
\* and the position centers the window on the display; fullscreen, the
\* physical size is the display's, the position is (0, 0) and the quad is
\* centered, with x0 = (display_width - window_width) div 2 >= 0 and
\* y0 = (display_height - window_height) div 2 >= 0.
C28_DestinationQuad ==
    SizeAccepted =>
        /\ TheDisplay.window_width = TheConfiguration.width * TheDisplay.window_scale
        /\ TheDisplay.window_height = TheConfiguration.height * TheDisplay.window_scale
        /\ TheDisplay.vram_destination[3] - TheDisplay.vram_destination[1]
              = TheDisplay.window_width
        /\ TheDisplay.vram_destination[4] - TheDisplay.vram_destination[2]
              = TheDisplay.window_height
        /\ QuadInside(TheDisplay.vram_destination,
                      TheDisplay.physical_width, TheDisplay.physical_height)
        /\ ~TheConfiguration.fullscreen =>
              /\ TheDisplay.vram_destination
                    = <<0, 0, TheDisplay.window_width, TheDisplay.window_height>>
              /\ TheDisplay.physical_width = TheDisplay.window_width
              /\ TheDisplay.physical_height = TheDisplay.window_height
              /\ TheDisplay.position[1]
                    = (TheMonitor.display_width - TheDisplay.window_width) \div 2
              /\ TheDisplay.position[2]
                    = (TheMonitor.display_height - TheDisplay.window_height) \div 2
              /\ TheDisplay.position[1] >= 0 /\ TheDisplay.position[2] >= 0
        /\ TheConfiguration.fullscreen =>
              /\ TheDisplay.physical_width = TheMonitor.display_width
              /\ TheDisplay.physical_height = TheMonitor.display_height
              /\ TheDisplay.position = <<0, 0>>
              /\ TheDisplay.vram_destination[1]
                    = (TheMonitor.display_width - TheDisplay.window_width) \div 2
              /\ TheDisplay.vram_destination[2]
                    = (TheMonitor.display_height - TheDisplay.window_height) \div 2

\* A fullscreen display larger than the window: an odd margin of one across,
\* which puts the quad at 0, and a margin of two or more down.
C28_Witness ==
    /\ SizeAccepted
    /\ TheConfiguration.fullscreen
    /\ TheMonitor.display_width - TheDisplay.window_width = 1
    /\ TheDisplay.vram_destination[1] = 0
    /\ TheMonitor.display_height - TheDisplay.window_height >= 2
    /\ TheDisplay.vram_destination[2] >= 1

(***************************************************************************)
(* Properties of the blits.                                                *)
(***************************************************************************)
\* The pixel (x, y) of the context lies in the destination rectangle of the
\* blit op.
InDestination(op, x, y) ==
    /\ op.position.x <= x /\ x < op.position.x + op.tile.width
    /\ op.position.y <= y /\ y < op.position.y + op.tile.height

\* The pixel of the surface that the blit op reads for the pixel (x, y) of
\* its destination rectangle.
SourcePixel(op, x, y) ==
    op.surface.data[op.surface.data_rows[op.tile.y + (y - op.position.y)]
                        + op.tile.x + (x - op.position.x)]

\* C29: GL_context_blit_fast with a tile (tx, ty, w, h) and a destination
\* (px, py) within bounds writes, for every i < h and j < w, the source pixel
\* (tx + j, ty + i) at the destination pixel (px + j, py + i), unless it is
\* transparent, and leaves every pixel outside the destination rectangle as
\* it was, whatever the widths of the surface and of the context.
C29_BlitFastRectangle ==
    gl_op.name = "GL_context_blit_fast" =>
        \A x \in 0..(gl.width - 1), y \in 0..(gl.height - 1) :
            IF InDestination(gl_op, x, y)
            THEN ResolvedAt(OffsetOf(x, y), SourcePixel(gl_op, x, y))
            ELSE vram[OffsetOf(x, y)] = gl_prev[OffsetOf(x, y)]

\* A blit of a tile of two rows, narrower than the context and than the
\* surface and not at the left edge of either, that changes a pixel of the
\* second row.
C29_Witness ==
    /\ gl_op.name = "GL_context_blit_fast"
    /\ gl_op.tile.height >= 2
    /\ gl_op.tile.width < gl.width
    /\ gl_op.tile.width < gl_op.surface.width
    /\ gl_op.tile.x >= 1
    /\ gl_op.position.x >= 1
    /\ vram[OffsetOf(gl_op.position.x, gl_op.position.y + 1)]
          # gl_prev[OffsetOf(gl_op.position.x, gl_op.position.y + 1)]

\* C30: GL_context_blit does not use its scale and its rotation: whatever
\* they are, it leaves the pixels as GL_context_blit_fast leaves them for the
\* same context, surface, tile and position.
C30_BlitIgnoresScaleAndRotation ==
    gl_op.name = "GL_context_blit" =>
        vram = GL_context_blit_fast(gl_prev, gl_op.surface, gl_op.tile, gl_op.position)

\* A scaled and rotated blit that changes the pixels.
C30_Witness ==
    /\ gl_op.name = "GL_context_blit"
    /\ gl_op.scale # 1
    /\ gl_op.rotation # 0
    /\ vram # gl_prev

\* ---------------------------------------------------------------------
\* The calls that draw nothing, GL_context_clear, and what a drawing call
\* leaves alone.

EmptyCalls ==
    {"GL_primitive_line", "GL_primitive_rectangle",
     "GL_primitive_filled_rectangle", "GL_primitive_circle",
     "GL_primitive_filled_circle", "GL_context_push", "GL_context_pop"}

DrawingCalls ==
    {"GL_context_clear", "GL_context_blit", "GL_context_blit_fast",
     "GL_primitive_point", "GL_primitive_hline", "GL_primitive_vline"}

\* C31: GL_primitive_line, GL_primitive_rectangle,
\* GL_primitive_filled_rectangle, GL_primitive_circle,
\* GL_primitive_filled_circle, GL_context_push and GL_context_pop leave the
\* pixels, the palette, the tables and every other field of the context as
\* they were, whatever their arguments.
C31_EmptyCallsChangeNothing ==
    [][gl_op'.name \in EmptyCalls => (vram' = vram /\ gl' = gl)]_vars

\* A line between two different visible points, in a colour that a point
\* would have drawn over different pixels.
C31_Witness ==
    /\ gl_op.name = "GL_primitive_line"
    /\ gl_op.from # gl_op.to
    /\ GL_is_visible(gl_op.from)
    /\ ~gl.transparent[gl.shifting[gl_op.color]]
    /\ \E o \in DOMAIN vram : vram[o] # gl.palette[gl.shifting[gl_op.color]]

\* C32: after GL_context_clear every one of the width * height pixels is
\* the palette colour of the background index, read from the palette without
\* the shifting or the transparency table.
C32_ClearFillsWithBackground ==
    gl_op.name = "GL_context_clear" =>
        /\ DOMAIN vram = 0..(gl.width * gl.height - 1)
        /\ \A o \in DOMAIN vram : vram[o] = gl.palette[gl.background]

\* A clear with a transparent background index that is shifted to another
\* index, over pixels that were not all of the background colour.
C32_Witness ==
    /\ gl_op.name = "GL_context_clear"
    /\ gl.transparent[gl.background]
    /\ gl.transparent[gl.shifting[gl.background]]
    /\ gl.shifting[gl.background] # gl.background
    /\ \E o \in DOMAIN gl_prev : gl_prev[o] # gl.palette[gl.background]

\* C33: GL_context_clear, GL_context_blit, GL_context_blit_fast,
\* GL_primitive_point, GL_primitive_hline and GL_primitive_vline change no
\* field of the context (tables, palette, background, dimensions); only the
\* pixels change.
C33_DrawingKeepsContext ==
    [][gl_op'.name \in DrawingCalls => gl' = gl]_vars

\* A blit that changed pixels under tables that are not the initial ones.
C33_Witness ==
    /\ gl_op.name = "GL_context_blit"
    /\ vram # gl_prev
    /\ gl.shifting # [i \in Pixels |-> i]
    /\ gl.transparent # [i \in Pixels |-> i = 0]

\* ---------------------------------------------------------------------
\* The ring of _calculate_fps.

RECURSIVE SumOfFirst(_, _)
SumOfFirst(ring, n) == IF n = 0 THEN 0 ELSE ring[n - 1] + SumOfFirst(ring, n - 1)

\* C34: after any number of calls of _calculate_fps the running sum is the
\* sum of all FPS_AVERAGE_SAMPLES entries of the ring, the write index is the
\* number of calls modulo FPS_AVERAGE_SAMPLES, and the value returned is
\* FPS_AVERAGE_SAMPLES divided by that sum, also while fewer than
\* FPS_AVERAGE_SAMPLES samples have been fed.
C34_FpsRing ==
    /\ sum = SumOfFirst(samples, FPS_AVERAGE_SAMPLES)
    /\ index = fps_calls % FPS_AVERAGE_SAMPLES
    /\ fps_calls > 0 =>
           env_fps = Fraction(FPS_AVERAGE_SAMPLES,
                              SumOfFirst(samples, FPS_AVERAGE_SAMPLES))

\* The first call, fed a positive time: the ring holds one sample and the
\* value returned is FPS_AVERAGE_SAMPLES over that sample.
C34_Witness ==
    /\ fps_calls = 1
    /\ fps_calls < FPS_AVERAGE_SAMPLES
    /\ elapsed > 0
    /\ env_fps = Fraction(FPS_AVERAGE_SAMPLES, elapsed)

\* ---------------------------------------------------------------------
\* The active program over any sequence of Display_shader calls.

\* C35: after Display_initialize and any sequence of Display_shader calls
\* (null, valid or invalid source) the active program is a live program, of
\* a non-zero id that the driver has not deleted, and no program object is
\* deleted more than once.
C35_ActiveProgramLive ==
    /\ display.active_program # NULL
    /\ display.programs[display.active_program].id # 0
    /\ display.programs[display.active_program].id \in DOMAIN driver.objects
    /\ \A n \in ProgramIds :
           Occurrences(display_op.deletes, n)
               <= Occurrences(display_op.creates, n)
                  + (IF n \in DOMAIN display_prev.driver.objects THEN 1 ELSE 0)

\* ---------------------------------------------------------------------
\* GL_program_attach and its shader object.

\* The calls of GL_program_attach made by the last call on the display.
Attaches == {display_op.attaches[i] : i \in DOMAIN display_op.attaches}

\* C36: GL_program_attach returns true exactly when the shader compiled and
\* the program linked with it; whenever a shader object was created it is
\* deleted exactly once, as the last call before returning; and after a
\* compile or a link failure the shader is not left attached to the program.
C36_AttachReleasesShader ==
    \A a \in Attaches :
        /\ a.ok <=> (a.outcome = "ok")
        /\ Occurrences(a.calls, "glDeleteShader")
               = (IF a.outcome = "no_shader" THEN 0 ELSE 1)
        /\ a.outcome # "no_shader" => a.calls[Len(a.calls)] = "glDeleteShader"
        /\ a.outcome \in {"compile_error", "link_error"} => a.attached = 0
        /\ a.outcome = "ok" => a.attached = 1

\* A call that attached the vertex shader and then failed to link the
\* fragment shader.
C36_Witness ==
    /\ Len(display_op.attaches) = 2
    /\ display_op.attaches[1].ok
    /\ display_op.attaches[2].outcome = "link_error"
    /\ "glAttachShader" \in
           {display_op.attaches[2].calls[i] : i \in DOMAIN display_op.attaches[2].calls}
====
